---------------------------- MODULE Spec2Model ----------------------------
(***************************************************************************)
(* A model of the agent-saas core:                                         *)
(*   - the workflow execution record of the backend and the worker's       *)
(*     run_workflow over the workflow graph          (specification        *)
(*     SpecExec);                                                          *)
(*   - the per-tenant token accounting of TenantLLMService (SpecLLM);      *)
(*   - the model selection of TenantLLMService.chat (SpecChat) and of a    *)
(*     long-lived LLMRouter (SpecRouter);                                  *)
(*   - the order in which the tasks of a workflow are visited (SpecOrder); *)
(*   - the deliveries of one execute_workflow job to a worker (SpecJob);   *)
(*   - the Redis job queues, the ARQ worker and the scheduled job          *)
(*     (SpecQueue, SpecQueueFair);                                         *)
(*   - EventService.publish and subscribe (SpecSSE).                       *)
(***************************************************************************)
EXTENDS Integers, Sequences, FiniteSets, TLC

VARIABLES
    \* ---- workflow execution (backend record and worker run) ----
    execution,      \* the DBWorkflowExecution row of the execution
    wpc,            \* position of the worker inside run_workflow
    steps,          \* the loaded task list: per task, whether it raises
    graph,          \* the WorkflowState of the graph run
    redis_state,    \* the worker's execution state hash in Redis
    events,         \* workflow.* events published on the tenant channel
    reports,        \* status reports the worker sent to the backend
    returned,       \* the status run_workflow returned
    api,            \* the last answer of an execution endpoint, and what
                    \* the calls accepted so far did
    \* ---- tenant token accounting (TenantLLMService) ----
    config,         \* the tenant's DBTenantLLMConfig row
    now,            \* the current calendar month (utcnow)
    usage_log,      \* the DBLLMUsageLog rows of the tenant
    chat_pc,        \* per chat call (database session): where it stands
    session,        \* per database session: the config values it loaded
    last_check,     \* what the last check_token_limit of a chat returned
    provider_calls, \* number of requests sent to a provider
    chat_calls,     \* number of chat calls started
    tenant,         \* the tenant's tier, keys and model lists
    called,         \* the provider and model of the last provider request
    \* ---- a long-lived LLMRouter instance ----
    providers,      \* self.providers, in dictionary order
    failures,       \* self._provider_failures
    selection,      \* what the last select_model returned
    request,        \* the last complete: counts before, calls made, outcome
    \* ---- task order of a workflow ----
    task_orders,    \* the order keys of the workflow's DBWorkflowTask rows
    task_list,      \* DBWorkflow.tasks as loaded, empty before the load
    visited,        \* the order keys of the steps the interpreter executed
    \* ---- one execute_workflow job and its deliveries to a worker ----
    job_workflow,   \* the workflow the job names: found or not, its tasks
    job_pc,         \* where the job stands: waiting, inside a run, finished
    job_graph,      \* the WorkflowState of the current run of the job
    deliveries,     \* how many times the job was handed to a worker
    executions,     \* the execution ids for which a state hash was written
    task_runs,      \* per task position: how many times it was executed
    job_events,     \* the workflow.* events published, with execution id
    done_at_crash,  \* the task positions completed when a worker crashed
    \* ---- job queues in Redis, the worker and the scheduled job ----
    queues,         \* per Redis key: the job envelopes waiting under it
    executed,       \* ids of the execute_workflow jobs a worker has run
    enqueued_count, \* number of execute_workflow envelopes produced
    clock,          \* the current quarter of an hour
    sched,          \* the DBScheduledJob row: next_run, last_run
    fires,          \* per scheduled envelope: the next_run it was due for
    \* ---- one SSE subscriber, the tenant channels, one workflow run ----
    sub,            \* the subscribe generator: position, tenant_id, user_id
    stream,         \* the events the generator has yielded
    inbox,          \* messages Redis delivered that the loop has not read
    published,      \* every event published, and whether sub was listening
    run_pc,         \* the run_workflow that publishes: idle, started, done
    run_results,    \* number of step results of that run
    run_watched,    \* whether sub was listening when the run started
    connections,    \* self._connections: per tenant, how many queues
    \* ---- one conversation of the chat endpoint ----
    conversation,   \* the DBConversation row: its agent_id, its messages
    handled,        \* the last chat turn: the request and its ChatResponse
    \* ---- the execute_workflow_step task and the tools it may call ----
    tool_status,    \* per tool of the registry: the status of its row
    step_out,       \* what the last execute_workflow_step returned
    tool_ran,       \* the last call of a run entry: the tool, its status then
    \* ---- one invocation of the tool-agent graph ----
    agent_settings, \* the worker's settings: MAX_ITERATIONS, an LLM key or none
    agent_state,    \* the AgentState, the node to run next, the nodes run
    \* ---- the workflow tables of the backend ----
    db_workflows,   \* workflow id -> its row, or NoWorkflow
    db_tasks,       \* the workflow_tasks rows
    db_jobs,        \* the scheduled_jobs rows
    db_executions,  \* the workflow_executions rows
    next_workflow   \* how many workflow ids generate_uuid has given out

execVars == <<execution, wpc, steps, graph, redis_state, events, reports,
              returned, api>>

llmVars == <<config, now, usage_log, chat_pc, session, last_check,
             provider_calls, chat_calls, tenant, called>>

routerVars == <<providers, failures, selection, request>>

orderVars == <<task_orders, task_list, visited>>

jobVars == <<job_workflow, job_pc, job_graph, deliveries, executions,
             task_runs, job_events, done_at_crash>>

\* what the actions of one part leave unchanged in the other parts
queueVars == <<queues, executed, enqueued_count, clock, sched, fires>>

sseVars == <<sub, stream, inbox, published, run_pc, run_results, run_watched,
            connections>>

talkVars == <<conversation, handled>>

stepVars == <<tool_status, step_out, tool_ran>>

agentVars == <<agent_settings, agent_state>>

tableVars == <<db_workflows, db_tasks, db_jobs, db_executions, next_workflow>>

nonExecVars == <<llmVars, routerVars, orderVars, jobVars, queueVars, sseVars,
    talkVars, stepVars,
    agentVars, tableVars>>

nonLLMVars == <<execVars, routerVars, orderVars, jobVars, queueVars, sseVars,
    talkVars, stepVars,
    agentVars, tableVars>>

nonRouterVars == <<execVars, llmVars, orderVars, jobVars, queueVars, sseVars,
    talkVars, stepVars,
    agentVars, tableVars>>

nonOrderVars == <<execVars, llmVars, routerVars, jobVars, queueVars, sseVars,
    talkVars, stepVars,
    agentVars, tableVars>>

nonJobVars == <<execVars, llmVars, routerVars, orderVars, queueVars, sseVars,
    talkVars, stepVars,
    agentVars, tableVars>>

nonQueueVars == <<execVars, llmVars, routerVars, orderVars, jobVars, sseVars,
    talkVars, stepVars,
    agentVars, tableVars>>

nonSSEVars == <<execVars, llmVars, routerVars, orderVars, jobVars, queueVars,
    talkVars, stepVars,
    agentVars, tableVars>>

nonTalkVars == <<execVars, llmVars, routerVars, orderVars, jobVars, queueVars,
    sseVars, stepVars,
    agentVars, tableVars>>

nonStepVars == <<execVars, llmVars, routerVars, orderVars, jobVars, queueVars,
    sseVars, talkVars, agentVars, tableVars>>

nonAgentVars == <<execVars, llmVars, routerVars, orderVars, jobVars, queueVars,
    sseVars, talkVars, stepVars, tableVars>>

nonTableVars == <<execVars, llmVars, routerVars, orderVars, jobVars, queueVars,
    sseVars, talkVars, stepVars, agentVars>>

vars == <<execVars, llmVars, routerVars, orderVars, jobVars, queueVars, sseVars,
    talkVars, stepVars, agentVars, tableVars>>

-----------------------------------------------------------------------------
(* Bounds *)

MaxTasks == 3

\* how many fields an input schema declares
MaxFields == 2

\* chat calls started per behaviour, and calendar months that pass
MaxCalls == 3

MaxMonth == 2

\* the failure count of a provider up to which failing requests are followed
MaxFailures == 4

\* how many times one job is handed to a worker
MaxDeliveries == 2

\* how many execute_workflow envelopes the backend produces
MaxJobs == 2

\* how many quarters of an hour pass
MaxTicks == 3

\* how many events the backend publishes through EventService.publish
MaxEvents == 2
MaxTurns == 2

-----------------------------------------------------------------------------
(* Workflow execution: the record                                          *)

Null == "null"

\* an Optional[int] or Optional[datetime] that is not set
None == -1

\* Python truth value of an Optional[str]
Truthy(x) == x # Null /\ x # ""

TerminalStatuses == {"completed", "failed", "cancelled"}

\* column defaults of DBWorkflowExecution; "none": the row does not exist
NoExecution ==
    [status |-> "none", completed_at |-> FALSE, error_message |-> Null,
     error_task_id |-> Null, current_task_order |-> Null]

\* execute_workflow: the row is created (pending) and put to running
ExecuteWorkflowRecord ==
    [NoExecution EXCEPT !.status = "running", !.current_task_order = "1"]

\* a field of input_schema as execute_workflow sees it: its required flag,
\* its default, and whether input_data has its name
InputFields ==
    [required : BOOLEAN, default : {Null, "", "x"}, given : BOOLEAN]

InputSchemas == UNION {[1..n -> InputFields] : n \in 0..MaxFields}

\* execute_workflow's test of one field: HTTP 400 Missing required input
FieldMissing(field) ==
    field.required /\ ~field.given /\ ~Truthy(field.default)

MissingRequiredInput(schema) ==
    \E i \in 1..Len(schema) : FieldMissing(schema[i])

\* a required field that is absent and for which no default is declared
RequiresInput(field) ==
    field.required /\ ~field.given /\ field.default = Null

\* no endpoint was called yet
NoCalls ==
    [call |-> "none", code |-> 0, undeclared |-> FALSE,
     approved |-> FALSE, rejected_by_user |-> FALSE, cancelled_at |-> None]

\* the answer of an endpoint; what earlier calls did is kept
Answer(call, code, undeclared) ==
    [api EXCEPT !.call = call, !.code = code, !.undeclared = undeclared,
                !.rejected_by_user = FALSE]

\* cancel_execution's status test, without waiting_approval
CancelAllowedUnlessWaiting(st) == st \in {"pending", "running"}

\* cancel_execution's status test
CancelAllowedAnyStatus(st) == st # "none"

CancelAllowed(st) == st \in {"pending", "running", "waiting_approval"}

\* approve_execution's status test, were it absent
ApproveAllowedAnyStatus(st) == TRUE

\* approve_execution's status test
ApproveAllowed(st) == st = "waiting_approval"

\* the payload BackendClient.update_execution_status builds
UpdatePayload(status, current_task, hasOutput, error) ==
    [status |-> status, current_task_order |-> current_task,
     has_output |-> hasOutput,
     error |-> IF error # "" THEN error ELSE Null]

\* BackendClient.complete_execution(success): status and output only
CompletePayload(success, hasOutput) ==
    UpdatePayload(IF success THEN "completed" ELSE "failed", Null, hasOutput, "")

\* BackendClient.fail_execution(error): status and error only
FailPayload(error) == UpdatePayload("failed", Null, FALSE, error)

\* PATCH /api/internal/executions/{id}: whether the update is accepted
InternalUpdateAccepted(rec) ==
    rec.status \notin TerminalStatuses \cup {"none"}

\* PATCH /api/internal/executions/{id}: the row after an accepted update
InternalUpdate(rec, p) ==
    [rec EXCEPT
        !.status = p.status,
        !.current_task_order = p.current_task_order,
        !.error_message = IF p.error # Null THEN p.error ELSE @,
        !.completed_at = IF p.status \in TerminalStatuses THEN TRUE ELSE @]

-----------------------------------------------------------------------------
(* Workflow execution: the graph of workflow_agent.py                      *)

\* what a task does when executed: it returns, it raises, or it is a
\* human_approval task (execute_human_approval_step returns a dictionary)
Outcomes == {"ok", "raise", "approval"}

TaskLists == UNION {[1..n -> Outcomes] : n \in 0..MaxTasks}

NoGraph ==
    [node |-> "none", current_step |-> 0, status |-> "unset",
     step_results |-> <<>>, error |-> Null]

\* initialize_workflow, followed by the edge to execute_step
InitializeWorkflow ==
    [node |-> "execute_step", current_step |-> 0, status |-> "running",
     step_results |-> <<>>, error |-> Null]

\* route_after_step without its first test
RouteAfterStepIgnoringFailure(g, tasks) ==
    IF g.status = "completed" THEN "finalize"
    ELSE IF g.current_step >= Len(tasks) THEN "finalize"
    ELSE "check_condition"

\* route_after_step
RouteAfterStep(g, tasks) ==
    IF g.status = "failed" THEN "handle_error"
    ELSE IF g.status = "completed" THEN "finalize"
    ELSE IF g.current_step >= Len(tasks) THEN "finalize"
    ELSE "check_condition"

\* route_after_condition
RouteAfterCondition(g, tasks) ==
    IF g.current_step >= Len(tasks) THEN "finalize" ELSE "execute_step"

\* execute_workflow_step: the state update the node returns
StepUpdate(g, tasks) ==
    IF g.current_step >= Len(tasks)
    THEN [g EXCEPT !.status = "completed"]
    ELSE IF tasks[g.current_step + 1] # "raise"
         THEN [g EXCEPT !.step_results = Append(@, "success"),
                        !.current_step = @ + 1]
         ELSE [g EXCEPT !.step_results = Append(@, "failed"),
                        !.status = "failed",
                        !.error = "step error"]

\* finalize_workflow: the status is the one the state already holds
FinalizeStatus(g) == g.status


-----------------------------------------------------------------------------
(* Workflow execution: initial state                                       *)

InitExec ==
    /\ execution = NoExecution
    /\ wpc = "idle"
    /\ steps = <<>>
    /\ graph = NoGraph
    /\ redis_state = [status |-> "none", error |-> Null]
    /\ events = <<>>
    /\ reports = <<>>
    /\ returned = "none"
    /\ api = NoCalls

-----------------------------------------------------------------------------
(* Workflow execution: the backend's endpoints                             *)

\* POST /api/workflows/{id}/execute
execute_workflow ==
    /\ execution.status = "none"
    /\ \E v \in {[rejected |-> MissingRequiredInput(schema),
                  undeclared |-> \E i \in 1..Len(schema) : RequiresInput(schema[i])] :
                        schema \in InputSchemas} :
         IF v.rejected
         THEN /\ api' = Answer("execute", 400, v.undeclared)
              /\ UNCHANGED execution
         ELSE /\ api' = Answer("execute", 200, v.undeclared)
              /\ execution' = ExecuteWorkflowRecord
    /\ UNCHANGED <<wpc, steps, graph, redis_state, events, reports, returned, nonExecVars>>

\* POST /api/executions/{id}/cancel
cancel_execution ==
    /\ IF execution.status = "none"
       THEN /\ api' = Answer("cancel", 404, FALSE)
            /\ UNCHANGED execution
       ELSE IF ~CancelAllowed(execution.status)
       THEN /\ api' = Answer("cancel", 400, FALSE)
            /\ UNCHANGED execution
       ELSE /\ api' = [Answer("cancel", 200, FALSE) EXCEPT
                          !.cancelled_at = IF wpc = "graph"
                                           THEN Len(graph.step_results)
                                           ELSE None]
            /\ execution' = [execution EXCEPT !.status = "cancelled",
                                              !.completed_at = TRUE]
    /\ UNCHANGED <<wpc, steps, graph, redis_state, events, reports, returned, nonExecVars>>

\* POST /api/executions/{id}/approve?approved=...
approve_execution ==
    /\ \E approved \in BOOLEAN :
         IF execution.status = "none"
         THEN /\ api' = Answer("approve", 404, FALSE)
              /\ UNCHANGED execution
         ELSE IF ~ApproveAllowed(execution.status)
         THEN /\ api' = Answer("approve", 400, FALSE)
              /\ UNCHANGED execution
         ELSE /\ api' = [Answer("approve", 200, FALSE) EXCEPT
                            !.approved = @ \/ approved,
                            !.rejected_by_user = ~approved]
              /\ execution' =
                    IF approved
                    THEN [execution EXCEPT !.status = "running"]
                    ELSE [execution EXCEPT !.status = "cancelled",
                                           !.completed_at = TRUE,
                                           !.error_message = "Rejected by user"]
    /\ UNCHANGED <<wpc, steps, graph, redis_state, events, reports, returned, nonExecVars>>

\* A status report arriving at the backend: the request does not reach the
\* handler, or the handler refuses it, or the handler applies it.
SendReport(p) ==
    \E reached \in BOOLEAN :
        IF ~reached
        THEN /\ reports' = Append(reports, [status |-> p.status, outcome |-> "unreachable"])
             /\ UNCHANGED execution
        ELSE IF InternalUpdateAccepted(execution)
        THEN /\ reports' = Append(reports, [status |-> p.status, outcome |-> "applied"])
             /\ execution' = InternalUpdate(execution, p)
        ELSE /\ reports' = Append(reports, [status |-> p.status, outcome |-> "rejected"])
             /\ UNCHANGED execution

\* The interpreter parks the execution at a human_approval task
\* (update_execution_status with status waiting_approval).
pause_for_approval ==
    /\ execution.status = "running"
    /\ execution' = InternalUpdate(execution,
                        UpdatePayload("waiting_approval", execution.current_task_order, FALSE, ""))
    /\ UNCHANGED <<wpc, steps, graph, redis_state, events, reports, returned, api, nonExecVars>>

-----------------------------------------------------------------------------
(* Workflow execution: the worker's run_workflow                           *)

\* run_workflow up to the try: state hash written, workflow.started published
run_start ==
    /\ wpc = "idle"
    /\ execution.status # "none"
    /\ redis_state' = [status |-> "running", error |-> Null]
    /\ events' = Append(events, "started")
    /\ wpc' = "load"
    /\ UNCHANGED <<execution, steps, graph, reports, returned, api, nonExecVars>>

\* load_workflow_from_backend, then graph.ainvoke enters initialize
run_load ==
    /\ wpc = "load"
    /\ \/ \* the workflow is not found: ValueError, caught by the except
          /\ wpc' = "except"
          /\ UNCHANGED <<steps, graph>>
       \/ \E tasks \in TaskLists :
            /\ steps' = tasks
            /\ graph' = InitializeWorkflow
            /\ wpc' = "graph"
    /\ UNCHANGED <<execution, redis_state, events, reports, returned, api, nonExecVars>>

\* node execute_step and its conditional edge
graph_execute_step ==
    /\ wpc = "graph"
    /\ graph.node = "execute_step"
    /\ LET g == StepUpdate(graph, steps)
       IN graph' = [g EXCEPT !.node = RouteAfterStep(g, steps)]
    /\ UNCHANGED <<execution, wpc, steps, redis_state, events, reports, returned, api, nonExecVars>>

\* node check_condition (returns no update) and its conditional edge
graph_check_condition ==
    /\ wpc = "graph"
    /\ graph.node = "check_condition"
    /\ graph' = [graph EXCEPT !.node = RouteAfterCondition(graph, steps)]
    /\ UNCHANGED <<execution, wpc, steps, redis_state, events, reports, returned, api, nonExecVars>>

\* node handle_error and its edge to finalize
graph_handle_error ==
    /\ wpc = "graph"
    /\ graph.node = "handle_error"
    /\ graph' = [graph EXCEPT !.status = "failed", !.node = "finalize"]
    /\ UNCHANGED <<execution, wpc, steps, redis_state, events, reports, returned, api, nonExecVars>>

\* node finalize, END, and run_workflow's write of the result status; the
\* write (redis.hset) may raise, which the except branch catches
graph_finalize ==
    /\ wpc = "graph"
    /\ graph.node = "finalize"
    /\ graph' = [graph EXCEPT !.status = FinalizeStatus(graph), !.node = "end"]
    /\ \/ /\ redis_state' = [redis_state EXCEPT !.status = FinalizeStatus(graph)]
          /\ wpc' = "notify"
       \/ /\ UNCHANGED redis_state
          /\ wpc' = "except"
    /\ UNCHANGED <<execution, steps, events, reports, returned, api, nonExecVars>>

\* notify_workflow_completed, workflow.completed, return of the try branch
run_notify_completed ==
    /\ wpc = "notify"
    /\ SendReport(CompletePayload(TRUE, \E i \in 1..Len(graph.step_results) :
                                            graph.step_results[i] = "success"))
    /\ events' = Append(events, "completed")
    /\ returned' = graph.status
    /\ wpc' = "done"
    /\ UNCHANGED <<steps, graph, redis_state, api, nonExecVars>>

\* str(e) in the except branch: the graph has ended only when the
\* exception is the one of the state write
ExceptionText == IF graph.node = "end" THEN "Redis error" ELSE "Workflow not found"

\* the except branch: state failed, workflow.failed, notify_workflow_failed;
\* its state write (redis.hset) may raise too, and then run_workflow ends
\* with that exception
run_except ==
    /\ wpc = "except"
    /\ \/ /\ redis_state' = [status |-> "failed", error |-> ExceptionText]
          /\ events' = Append(events, "failed")
          /\ SendReport(FailPayload(ExceptionText))
          /\ returned' = "failed"
       \/ /\ returned' = "raised"
          /\ UNCHANGED <<redis_state, events, reports, execution>>
    /\ wpc' = "done"
    /\ UNCHANGED <<steps, graph, api, nonExecVars>>

NextExec ==
    \/ execute_workflow
    \/ cancel_execution
    \/ approve_execution
    \/ pause_for_approval
    \/ run_start
    \/ run_load
    \/ graph_execute_step
    \/ graph_check_condition
    \/ graph_handle_error
    \/ graph_finalize
    \/ run_notify_completed
    \/ run_except

-----------------------------------------------------------------------------
(* Workflow execution: properties                                          *)

Reported(st, oc) ==
    \E i \in 1..Len(reports) : reports[i].status = st /\ reports[i].outcome = oc

Told(st) == \E i \in 1..Len(reports) : reports[i].status = st

Published(ev) == \E i \in 1..Len(events) : events[i] = ev

SomeTaskRaised ==
    \E i \in 1..Len(graph.step_results) : graph.step_results[i] = "failed"

AllTasksSucceeded ==
    /\ Len(steps) >= 1
    /\ Len(graph.step_results) = Len(steps)
    /\ \A i \in 1..Len(graph.step_results) : graph.step_results[i] = "success"

C2_RecordInvariant ==
    /\ execution.status = "completed"
          => execution.completed_at /\ execution.error_message = Null
    /\ execution.status = "failed"
          => execution.error_message # Null /\ execution.error_task_id # Null

\* C3: a run in which a task raised ends as failed: stored and returned
\* status failed, the backend told failed, workflow.failed published, and
\* neither workflow.completed published nor the backend told completed.
C3_FailedRunReportsFailure ==
    (wpc = "done" /\ SomeTaskRaised)
        => /\ redis_state.status = "failed"
           /\ returned = "failed"
           /\ Told("failed")
           /\ Published("failed")
           /\ ~Published("completed")
           /\ ~Told("completed")

\* C4: when every task of a workflow with at least one task succeeds, the
\* status of the graph's final state, the stored status and the returned
\* status are all "completed".
C4_SuccessfulRunCompletes ==
    (wpc = "done" /\ AllTasksSucceeded)
        => /\ graph.status = "completed"
           /\ redis_state.status = "completed"
           /\ returned = "completed"

\* C21: a task that follows a human_approval task is executed only after
\* an approve call with approved=true was accepted for the execution.
C21_NoLaterTaskBeforeApproval ==
    \A k \in 1..Len(steps) :
        (steps[k] = "approval" /\ Len(graph.step_results) > k) => api.approved

\* C22: approve_execution on a waiting_approval execution puts it to running
\* (approved) or to cancelled with completed_at and "Rejected by user" (not
\* approved); on any other status it is refused and the record is unchanged.
C22_ApproveOnlyWhenWaiting ==
    [][approve_execution =>
         IF execution.status = "waiting_approval"
         THEN /\ api'.code = 200
              /\ execution' =
                    IF api'.rejected_by_user
                    THEN [execution EXCEPT !.status = "cancelled",
                                           !.completed_at = TRUE,
                                           !.error_message = "Rejected by user"]
                    ELSE [execution EXCEPT !.status = "running"]
         ELSE /\ api'.code # 200
              /\ execution' = execution]_vars

\* C22 witness: an execution waiting for approval was rejected by the user
C22_Witness ==
    /\ api.call = "approve"
    /\ api.code = 200
    /\ api.rejected_by_user
    /\ execution.status = "cancelled"
    /\ execution.error_message = "Rejected by user"

\* C23: cancel_execution succeeds exactly on a pending, running or
\* waiting_approval execution, which becomes cancelled with completed_at;
\* otherwise it is refused and the record is unchanged.
C23_CancelExactlyWhenActive ==
    [][cancel_execution =>
         IF execution.status \in {"pending", "running", "waiting_approval"}
         THEN /\ api'.code = 200
              /\ execution' = [execution EXCEPT !.status = "cancelled",
                                                !.completed_at = TRUE]
         ELSE /\ api'.code # 200
              /\ execution' = execution]_vars

\* C23 witness: the cancel of an execution that had completed or failed was
\* refused
C23_Witness ==
    /\ api.call = "cancel"
    /\ api.code = 400
    /\ execution.status \in {"completed", "failed"}

\* C24: after a cancel accepted while the worker runs the graph, at most
\* the task in progress finishes: no second step result is added.
C24_NoTaskAfterCancel ==
    api.cancelled_at # None => Len(graph.step_results) <= api.cancelled_at + 1

\* C25: execute_workflow refuses a request exactly when a required field is
\* absent from input_data and declares no default.
C25_RejectedIffInputUndeclared ==
    api.call = "execute" => (api.code = 400 <=> api.undeclared)

-----------------------------------------------------------------------------
(* Model routing: LLMRouter                                                *)

\* the providers registered in providers.py, in registration order
ProviderOrder == <<"groq", "openai", "anthropic">>

ProviderNames == {"groq", "openai", "anthropic"}

\* available_models[0] of each provider class
FirstAvailableModel ==
    [pr \in ProviderNames |->
        CASE pr = "groq" -> "llama-3.3-70b-versatile"
          [] pr = "openai" -> "gpt-4o"
          [] pr = "anthropic" -> "claude-3-5-sonnet-20241022"]

TaskTypes ==
    {"chat", "support", "summarize", "extract", "classify", "sentiment",
     "write", "email", "code", "translate", "analyze", "plan", "decide",
     "research", "quick", "format"}

Req(sp, re, cr, mc) ==
    [speed |-> sp, reasoning |-> re, creativity |-> cr, min_cost |-> mc]

TASK_REQUIREMENTS ==
    [t \in TaskTypes |->
        CASE t = "chat" -> Req(4, 3, 3, 4)
          [] t = "support" -> Req(4, 3, 2, 4)
          [] t = "summarize" -> Req(4, 4, 2, 4)
          [] t = "extract" -> Req(4, 4, 1, 4)
          [] t = "classify" -> Req(5, 3, 1, 5)
          [] t = "sentiment" -> Req(5, 3, 1, 5)
          [] t = "write" -> Req(3, 4, 5, 3)
          [] t = "email" -> Req(4, 3, 3, 4)
          [] t = "code" -> Req(3, 5, 4, 3)
          [] t = "translate" -> Req(4, 4, 2, 4)
          [] t = "analyze" -> Req(2, 5, 4, 2)
          [] t = "plan" -> Req(2, 5, 4, 2)
          [] t = "decide" -> Req(3, 5, 3, 3)
          [] t = "research" -> Req(2, 5, 3, 2)
          [] t = "quick" -> Req(5, 2, 2, 5)
          [] t = "format" -> Req(5, 2, 1, 5)]

Cap(re, cr, sp, co) ==
    [reasoning |-> re, creativity |-> cr, speed |-> sp, cost |-> co]

\* get_model_capabilities: MODEL_CAPABILITIES with the 3/3/3/3 default
GetModelCapabilities(model) ==
    CASE model = "gpt-4o" -> Cap(5, 5, 4, 3)
      [] model = "gpt-4o-mini" -> Cap(4, 4, 5, 5)
      [] model = "gpt-4-turbo" -> Cap(5, 5, 3, 2)
      [] model = "claude-3-5-sonnet-20241022" -> Cap(5, 5, 4, 3)
      [] model = "claude-3-5-haiku-20241022" -> Cap(4, 4, 5, 5)
      [] model = "claude-3-opus-20240229" -> Cap(5, 5, 2, 1)
      [] model = "llama-3.3-70b-versatile" -> Cap(5, 4, 5, 5)
      [] model = "llama-3.1-8b-instant" -> Cap(3, 3, 5, 5)
      [] model = "mixtral-8x7b-32768" -> Cap(4, 4, 5, 5)
      [] model = "gemini-1.5-flash" -> Cap(4, 4, 5, 5)
      [] model = "gemini-1.5-pro" -> Cap(5, 5, 3, 3)
      [] model = "mistral-large-latest" -> Cap(5, 4, 4, 3)
      [] model = "mistral-small-latest" -> Cap(3, 3, 5, 5)
      [] OTHER -> Cap(3, 3, 3, 3)

TierOrder == <<"free", "cheap", "balanced", "premium">>

PM(pr, m) == [provider |-> pr, model |-> m]

MODEL_TIERS ==
    [t \in {"free", "cheap", "balanced", "premium"} |->
        CASE t = "free" ->
               <<PM("groq", "llama-3.1-70b-versatile"),
                 PM("groq", "llama-3.1-8b-instant"),
                 PM("groq", "mixtral-8x7b-32768")>>
          [] t = "cheap" ->
               <<PM("openai", "gpt-4o-mini"),
                 PM("anthropic", "claude-3-5-haiku-20241022"),
                 PM("google", "gemini-1.5-flash"),
                 PM("mistral", "mistral-small-latest")>>
          [] t = "balanced" ->
               <<PM("anthropic", "claude-3-5-sonnet-20241022"),
                 PM("openai", "gpt-4o"),
                 PM("google", "gemini-1.5-pro"),
                 PM("mistral", "mistral-large-latest")>>
          [] t = "premium" ->
               <<PM("anthropic", "claude-3-opus-20240229"),
                 PM("openai", "gpt-4-turbo")>>]

Min(a, b) == IF a <= b THEN a ELSE b

SeqToSet(sq) == {sq[i] : i \in DOMAIN sq}

\* tier_order.index(tier)
TierIndex(tier) == CHOOSE i \in DOMAIN TierOrder : TierOrder[i] = tier

\* _score_model, in integers: 600000 * (cost_w + speed_w + quality_w) times
\* the score of the code.  The code divides the three weights by their sum,
\* which is the same for every candidate of one selection, so the order of
\* two candidates is the order of these numbers.
ScoreModel(model, task_type, prefer_speed, prefer_quality) ==
    LET cap == GetModelCapabilities(model)
        req == TASK_REQUIREMENTS[task_type]
        cost_w == CASE prefer_speed /\ prefer_quality -> 105
                    [] prefer_speed /\ ~prefer_quality -> 210
                    [] ~prefer_speed /\ prefer_quality -> 150
                    [] OTHER -> 300
        speed_w == IF prefer_speed THEN 450 ELSE 300
        quality_w == IF prefer_quality THEN 600 ELSE 400
        cost_score == IF cap.cost >= req.min_cost
                      THEN cap.cost * 600 ELSE cap.cost * 300
        speed_score == IF cap.speed >= req.speed
                       THEN cap.speed * 600 ELSE cap.speed * 300
        reasoning_score == Min((cap.reasoning * 60) \div req.reasoning, 90)
        creativity_score == Min((cap.creativity * 60) \div req.creativity, 90)
        quality ==
            IF task_type \in {"code", "analyze", "plan", "decide"}
            THEN 7 * reasoning_score + 3 * creativity_score
            ELSE IF task_type \in {"write", "email"}
            THEN 3 * reasoning_score + 7 * creativity_score
            ELSE 5 * reasoning_score + 5 * creativity_score
    IN cost_w * cost_score + speed_w * speed_score + quality_w * quality * 5

\* the entries of MODEL_TIERS for the first n tiers, in iteration order
RECURSIVE TierEntries(_)
TierEntries(n) ==
    IF n = 0 THEN <<>>
    ELSE TierEntries(n - 1) \o
         [k \in DOMAIN MODEL_TIERS[TierOrder[n]] |->
            [provider |-> MODEL_TIERS[TierOrder[n]][k].provider,
             model |-> MODEL_TIERS[TierOrder[n]][k].model,
             tier |-> TierOrder[n]]]

\* the candidates of each tier argument before any filtering
EntriesUpTo ==
    [t \in {"free", "cheap", "balanced", "premium"} |-> TierEntries(TierIndex(t))]

\* select_model: "self._provider_failures.get(provider_name, 0) > 3"
Unhealthy(fails, provider_name) == fails[provider_name] > 3

\* select_model: the candidates list before sorting
Candidates(provs, fails, tier, required_provider) ==
    SelectSeq(EntriesUpTo[tier],
        LAMBDA c : /\ c.provider \in SeqToSet(provs)
                   /\ (required_provider = "" \/ c.provider = required_provider)
                   /\ ~Unhealthy(fails, c.provider))

\* candidates.sort(key=score, reverse=True)[0]: the sort is stable, so the
\* first candidate that has the highest score
RECURSIVE BestCandidate(_, _, _, _)
BestCandidate(cands, task_type, prefer_speed, prefer_quality) ==
    LET head == [c |-> Head(cands),
                 score |-> ScoreModel(Head(cands).model, task_type,
                                      prefer_speed, prefer_quality)]
    IN IF Len(cands) = 1 THEN head
       ELSE LET rest == BestCandidate(Tail(cands), task_type,
                                      prefer_speed, prefer_quality)
            IN IF head.score >= rest.score THEN head ELSE rest

\* select_model: the fallback loop over self.providers; every provider
\* class advertises a non-empty model list
FallbackSelection(provs) ==
    IF provs = <<>>
    THEN [kind |-> "error", provider |-> Null, model |-> Null, tier |-> Null]
    ELSE [kind |-> "fallback", provider |-> provs[1],
          model |-> FirstAvailableModel[provs[1]], tier |-> Null]

SelectModel(provs, fails, task_type, tier, prefer_speed, prefer_quality, required_provider) ==
    LET cands == Candidates(provs, fails, tier, required_provider)
    IN IF cands = <<>>
       THEN FallbackSelection(provs)
       ELSE LET b == BestCandidate(cands, task_type, prefer_speed, prefer_quality).c
            IN [kind |-> "best", provider |-> b.provider,
                model |-> b.model, tier |-> b.tier]

-----------------------------------------------------------------------------
(* Tenant token accounting: TenantLLMService                               *)

Sessions == {1, 2}

UsageModes == {"platform", "byok", "hybrid"}

\* chat's estimated_tokens argument to check_token_limit
EstimatedTokens == 500

\* get_tenant_config's default monthly_token_limit
DefaultTokenLimit == 100000

\* monthly_token_limit values a tenant row may hold (None: unlimited plan)
TokenLimits == {DefaultTokenLimit, 300, None}

\* total_tokens a provider response may report
TokenAmounts == {0, 200, 99800}

\* _get_next_month_start: the first instant of the month after month t
\* a time is a count of calendar months: month t is month (t % 12) + 1 of
\* year t \div 12; the run starts in October so that December is crossed
FirstMonth == 10
YearOf(t) == t \div 12
MonthOf(t) == (t % 12) + 1
MonthStart(year, month) == year * 12 + (month - 1)
NextMonthStartSame(t) == t
NextMonthStart(t) ==
    IF MonthOf(t) = 12
    THEN MonthStart(YearOf(t) + 1, 1)
    ELSE MonthStart(YearOf(t), MonthOf(t) + 1)

\* get_tenant_config: the row created for a tenant at month t
NewTenantConfig(mode, limit, t) ==
    [usage_mode |-> mode, monthly_token_limit |-> limit,
     tokens_used_this_month |-> 0, limit_reset_at |-> NextMonthStart(t),
     preferred_provider |-> Null, preferred_model |-> Null]

\* check_token_limit: "now >= config.limit_reset_at"
ResetDueNever(cfg, t) == FALSE

ResetDue(cfg, t) == t >= cfg.limit_reset_at

\* check_token_limit: the row after the call
ConfigAfterCheck(cfg, t) ==
    IF cfg.usage_mode = "byok" THEN cfg
    ELSE IF ResetDue(cfg, t)
         THEN [cfg EXCEPT !.tokens_used_this_month = 0,
                          !.limit_reset_at = NextMonthStart(t)]
         ELSE cfg

\* check_token_limit: the dict it returns
CheckTokenLimit(cfg, t, estimated) ==
    LET c == ConfigAfterCheck(cfg, t) IN
    IF cfg.usage_mode = "byok"
    THEN [allowed |-> TRUE, remaining |-> None, limit |-> None,
          reset_at |-> None, mode |-> "byok"]
    ELSE IF c.monthly_token_limit = None
    THEN [allowed |-> TRUE, remaining |-> None, limit |-> None,
          reset_at |-> None, mode |-> "platform"]
    ELSE [allowed |-> c.monthly_token_limit - c.tokens_used_this_month >= estimated,
          remaining |-> c.monthly_token_limit - c.tokens_used_this_month,
          limit |-> c.monthly_token_limit,
          reset_at |-> c.limit_reset_at,
          mode |-> "platform"]

\* _log_usage: the usage row, with billing_period taken at logging time
UsageRecord(t, tokens, mode) ==
    [billing_period |-> t, total_tokens |-> tokens, usage_mode |-> mode]

\* _log_usage: the counter written, from the value the session holds
CounterAfterLog(sessionUsed, tokens) == sessionUsed + tokens

NoCheck == [n |-> 0, allowed |-> TRUE, remaining |-> None, limit |-> None,
            reset_at |-> None, mode |-> Null]

NoSession == [tokens_used_this_month |-> 0, usage_mode |-> Null]

LLMTiers == {"free", "standard", "professional", "enterprise"}

\* TIER_MODELS of llm_service.py
TIER_MODELS ==
    [t \in LLMTiers |->
        CASE t = "free" ->
               <<PM("groq", "llama-3.3-70b-versatile"),
                 PM("groq", "llama-3.1-8b-instant"),
                 PM("groq", "mixtral-8x7b-32768")>>
          [] t = "standard" ->
               <<PM("groq", "llama-3.3-70b-versatile"),
                 PM("groq", "llama-3.1-8b-instant"),
                 PM("openai", "gpt-4o-mini"),
                 PM("anthropic", "claude-3-5-haiku-20241022")>>
          [] t = "professional" ->
               <<PM("groq", "llama-3.3-70b-versatile"),
                 PM("openai", "gpt-4o-mini"),
                 PM("openai", "gpt-4o"),
                 PM("anthropic", "claude-3-5-haiku-20241022"),
                 PM("anthropic", "claude-3-5-sonnet-20241022")>>
          [] t = "enterprise" ->
               <<PM("groq", "llama-3.3-70b-versatile"),
                 PM("openai", "gpt-4o-mini"),
                 PM("openai", "gpt-4o"),
                 PM("openai", "gpt-4-turbo"),
                 PM("anthropic", "claude-3-5-haiku-20241022"),
                 PM("anthropic", "claude-3-5-sonnet-20241022"),
                 PM("anthropic", "claude-3-opus-20240229")>>]

\* the routing side of a tenant: its tier, the providers it holds its own
\* keys for, the providers the platform holds keys for, its model lists
Tenant(tier, byok, platform, allowed, blocked) ==
    [llm_tier |-> tier, byok_keys |-> byok, platform_keys |-> platform,
     allowed_models |-> allowed, blocked_models |-> blocked]

\* the names of a set of providers in registration order
InOrder(names) == SelectSeq(ProviderOrder, LAMBDA pr : pr \in names)

\* _get_providers_for_tenant: the providers dictionary, in insertion order
GetProvidersForTenant(mode, tn) ==
    IF mode = "platform" THEN InOrder(tn.platform_keys)
    ELSE IF mode = "hybrid"
    THEN InOrder(tn.byok_keys) \o InOrder(tn.platform_keys \ tn.byok_keys)
    ELSE InOrder(tn.byok_keys)

\* get_available_models: the model names chat compares the response with
GetAvailableModels(mode, tn) ==
    IF mode = "byok"
    THEN {e.model : e \in {x \in SeqToSet(TIER_MODELS["enterprise"]) :
                              x.provider \in tn.byok_keys}}
    ELSE {e.model : e \in {x \in SeqToSet(TIER_MODELS[tn.llm_tier]) :
              /\ (tn.allowed_models # {} => x.model \in tn.allowed_models)
              /\ x.model \notin tn.blocked_models}}

\* chat: the router tier of an llm_tier
RouterTier(llm_tier) ==
    CASE llm_tier = "standard" -> "cheap"
      [] llm_tier = "professional" -> "balanced"
      [] llm_tier = "enterprise" -> "premium"
      [] OTHER -> "free"

NoFailures == [pr \in ProviderNames |-> 0]

NoCall == PM(Null, Null)

NoSelection ==
    [kind |-> "none", provider |-> Null, model |-> Null,
     asked_tier |-> Null, healthy_available |-> FALSE, selected_failures |-> 0]

\* a provider call of a request, and what the request ended with
Call(pr, raised) == [provider |-> pr, raised |-> raised]

Surfaced(kind, pr) == [kind |-> kind, provider |-> pr]

NoRequest ==
    [before |-> NoFailures, calls |-> <<>>, surfaced |-> Surfaced("none", Null)]

IdleRouter ==
    /\ providers = <<>>
    /\ failures = NoFailures
    /\ selection = NoSelection
    /\ request = NoRequest

IdleLLM ==
    /\ config = NewTenantConfig("platform", DefaultTokenLimit, FirstMonth)
    /\ now = FirstMonth
    /\ usage_log = <<>>
    /\ chat_pc = [p \in Sessions |-> "idle"]
    /\ session = [p \in Sessions |-> NoSession]
    /\ last_check = NoCheck
    /\ provider_calls = 0
    /\ chat_calls = 0
    /\ tenant = Tenant("free", {}, {}, {}, {})
    /\ called = NoCall

\* a tenant on the free tier without keys of its own; the platform holds a
\* Groq key
InitLLM ==
    /\ \E mode \in UsageModes, limit \in TokenLimits :
          config = NewTenantConfig(mode, limit, FirstMonth)
    /\ now = FirstMonth
    /\ usage_log = <<>>
    /\ chat_pc = [p \in Sessions |-> "idle"]
    /\ session = [p \in Sessions |-> NoSession]
    /\ last_check = NoCheck
    /\ provider_calls = 0
    /\ chat_calls = 0
    /\ tenant = Tenant("free", {}, {"groq"}, {}, {})
    /\ called = NoCall

\* a tenant as its row and keys are first created: platform mode, the
\* default limit, no key of its own
InitConfig ==
    /\ config = NewTenantConfig("platform", DefaultTokenLimit, FirstMonth)
    /\ now = FirstMonth
    /\ usage_log = <<>>
    /\ chat_pc = [p \in Sessions |-> "idle"]
    /\ session = [p \in Sessions |-> NoSession]
    /\ last_check = NoCheck
    /\ provider_calls = 0
    /\ chat_calls = 0
    /\ tenant = Tenant("free", {}, {"groq"}, {}, {})
    /\ called = NoCall

\* update_config: what a caller may pass for a key: nothing, the empty
\* string, or a key
KeyArguments == {Null, "", "sk-key"}

\* update_config: "if key is not None: config.key = key if key else None",
\* on the set of providers the tenant stores a key for
KeysAfterUpdate(keys, pr, key) ==
    IF key = Null THEN keys
    ELSE IF Truthy(key) THEN keys \cup {pr}
    ELSE keys \ {pr}

\* update_config: "if value: config.column = value"
ColumnAfterUpdate(old, value) == IF Truthy(value) THEN value ELSE old

\* update_config: every argument is optional and none is validated
update_config ==
    \E usage_mode \in UsageModes \cup {Null},
       byok_openai_key \in KeyArguments,
       byok_anthropic_key \in KeyArguments,
       byok_groq_key \in KeyArguments,
       preferred_provider \in ProviderNames \cup {Null},
       preferred_model \in {Null, "gpt-4o"} :
        /\ config' = [config EXCEPT
              !.usage_mode = ColumnAfterUpdate(@, usage_mode),
              !.preferred_provider = ColumnAfterUpdate(@, preferred_provider),
              !.preferred_model = ColumnAfterUpdate(@, preferred_model)]
        /\ tenant' = [tenant EXCEPT !.byok_keys =
              KeysAfterUpdate(
                  KeysAfterUpdate(
                      KeysAfterUpdate(@, "openai", byok_openai_key),
                      "anthropic", byok_anthropic_key),
                  "groq", byok_groq_key)]
        /\ UNCHANGED <<now, usage_log, chat_pc, session, last_check,
                       provider_calls, chat_calls, called, nonLLMVars>>

NextConfig == update_config

\* a calendar month passes
month_passes ==
    /\ now < FirstMonth + MaxMonth
    /\ now' = now + 1
    /\ UNCHANGED <<config, usage_log, chat_pc, session, last_check,
                   provider_calls, chat_calls, tenant, called,
                   nonLLMVars>>

\* chat, up to the provider call: the session loads the config row,
\* check_token_limit(500) runs, the providers of the tenant are looked up
chat_begin(p) ==
    /\ chat_pc[p] = "idle"
    /\ chat_calls < MaxCalls
    /\ chat_calls' = chat_calls + 1
    /\ LET c == ConfigAfterCheck(config, now)
           r == CheckTokenLimit(config, now, EstimatedTokens)
       IN /\ config' = c
          /\ last_check' = [n |-> last_check.n + 1, allowed |-> r.allowed,
                            remaining |-> r.remaining, limit |-> r.limit,
                            reset_at |-> r.reset_at, mode |-> r.mode]
          /\ IF ~r.allowed
             THEN \* "token_limit_exceeded" is returned
                  UNCHANGED <<chat_pc, session, provider_calls, called>>
             ELSE LET provs == GetProvidersForTenant(c.usage_mode, tenant) IN
                    IF provs = <<>>
                    THEN \* "no_providers" is returned
                         UNCHANGED <<chat_pc, session, provider_calls, called>>
                    ELSE \* router.complete on a new LLMRouter: select_model,
                         \* then the request to the selected provider
                         \E sel \in {SelectModel(provs, NoFailures, task_type,
                                          RouterTier(tenant.llm_tier),
                                          FALSE, FALSE, "") :
                                          task_type \in TaskTypes} :
                              /\ called' = PM(sel.provider, sel.model)
                              /\ chat_pc' = [chat_pc EXCEPT ![p] = "provider"]
                              /\ session' = [session EXCEPT ![p] =
                                    [tokens_used_this_month |-> c.tokens_used_this_month,
                                     usage_mode |-> c.usage_mode]]
                              /\ provider_calls' = provider_calls + 1
    /\ UNCHANGED <<now, usage_log, tenant, nonLLMVars>>

\* router.complete raised: "llm_error" is returned, nothing is logged
chat_provider_error(p) ==
    /\ chat_pc[p] = "provider"
    /\ chat_pc' = [chat_pc EXCEPT ![p] = "idle"]
    /\ UNCHANGED <<config, now, usage_log, session, last_check,
                   provider_calls, chat_calls, tenant, called,
                   nonLLMVars>>

\* router.complete returned: _log_usage adds the row and, in platform
\* mode, writes the counter from the value held by the session
chat_log_usage(p) ==
    /\ chat_pc[p] = "provider"
    /\ \E tokens \in TokenAmounts :
         /\ usage_log' = Append(usage_log,
                UsageRecord(now, tokens, session[p].usage_mode))
         /\ config' =
              IF session[p].usage_mode = "platform"
              THEN [config EXCEPT !.tokens_used_this_month =
                      CounterAfterLog(session[p].tokens_used_this_month, tokens)]
              ELSE config
    /\ chat_pc' = [chat_pc EXCEPT ![p] = "idle"]
    /\ UNCHANGED <<now, session, last_check, provider_calls, chat_calls, tenant, called,
                   nonLLMVars>>

NextLLM ==
    \/ month_passes
    \/ \E p \in Sessions : chat_begin(p)
    \/ \E p \in Sessions : chat_provider_error(p)
    \/ \E p \in Sessions : chat_log_usage(p)

\* the chat calls of a tenant with any tier, keys and model lists
AllowLists == {{}, {"gpt-4o-mini"}}

BlockLists == {{}, {"mixtral-8x7b-32768"}}

InitChat ==
    /\ \E mode \in UsageModes : config = NewTenantConfig(mode, DefaultTokenLimit, FirstMonth)
    /\ now = FirstMonth
    /\ usage_log = <<>>
    /\ chat_pc = [p \in Sessions |-> "idle"]
    /\ session = [p \in Sessions |-> NoSession]
    /\ last_check = NoCheck
    /\ provider_calls = 0
    /\ chat_calls = 0
    /\ \E tier \in LLMTiers, byok \in SUBSET ProviderNames,
          platform \in SUBSET ProviderNames,
          allowed \in AllowLists, blocked \in BlockLists :
          tenant = Tenant(tier, byok, platform, allowed, blocked)
    /\ called = NoCall

NextChat ==
    \/ chat_begin(1)
    \/ chat_provider_error(1)
    \/ chat_log_usage(1)

-----------------------------------------------------------------------------
(* A long-lived LLMRouter: select_model and complete                       *)

\* the provider dictionaries a router is built with: those
\* get_available_providers returns that are not empty
ProviderDicts == {InOrder(names) : names \in (SUBSET ProviderNames) \ {{}}}

\* a ModelSelection, with the tier asked for and the health of the
\* providers at the time of the selection
Observed(sel, fails, asked) ==
    [kind |-> sel.kind, provider |-> sel.provider, model |-> sel.model,
     asked_tier |-> asked,
     healthy_available |-> \E pr \in SeqToSet(providers) : fails[pr] <= 3,
     selected_failures |-> IF sel.kind = "error" THEN 0 ELSE fails[sel.provider]]

InitRouter ==
    /\ providers \in ProviderDicts
    /\ failures = NoFailures
    /\ selection = NoSelection
    /\ request = NoRequest

\* the arguments of a request to the router
Requests ==
    [task_type : TaskTypes, tier : SeqToSet(TierOrder),
     prefer_speed : BOOLEAN, prefer_quality : BOOLEAN]

\* complete: "if self._provider_failures[selection.provider] <= 3: raise"
SurfaceUnchangedNever(count) == FALSE

SurfaceUnchanged(count) == count <= 3

\* complete, once select_model has returned sel for a request of tier
\* asked: the request to the selected provider (ok: it returns), the
\* failure count, and after a fourth failure the alternative selection and
\* the request to that provider (ok2: it returns)
Complete(provs, fails, sel, asked, task_type, ok, ok2) ==
    LET failed == [fails EXCEPT ![sel.provider] = @ + 1]
        alt == SelectModel(provs, failed, task_type, "balanced", FALSE, TRUE, "")
        first == Call(sel.provider, ~ok)
    IN IF sel.kind = "error"
       THEN [selection |-> Observed(sel, fails, asked), failures |-> fails,
             request |-> [before |-> fails, calls |-> <<>>,
                          surfaced |-> Surfaced("error", Null)]]
       ELSE IF ok
       THEN [selection |-> Observed(sel, fails, asked),
             failures |-> [fails EXCEPT ![sel.provider] = 0],
             request |-> [before |-> fails, calls |-> <<first>>,
                          surfaced |-> Surfaced("response", sel.provider)]]
       ELSE IF SurfaceUnchanged(failed[sel.provider])
       THEN [selection |-> Observed(sel, fails, asked), failures |-> failed,
             request |-> [before |-> fails, calls |-> <<first>>,
                          surfaced |-> Surfaced("error", sel.provider)]]
       ELSE IF alt.provider = sel.provider
       THEN [selection |-> Observed(alt, failed, "balanced"), failures |-> failed,
             request |-> [before |-> fails, calls |-> <<first>>,
                          surfaced |-> Surfaced("error", sel.provider)]]
       ELSE \* "return await alt_provider.complete(...)" inside the handler
            [selection |-> Observed(alt, failed, "balanced"), failures |-> failed,
             request |-> [before |-> fails,
                          calls |-> <<first, Call(alt.provider, ~ok2)>>,
                          surfaced |-> IF ok2
                                       THEN Surfaced("response", alt.provider)
                                       ELSE Surfaced("error", alt.provider)]]

\* the selections complete can start from in the current state, each with
\* the tier and task type of its request
FirstSelections ==
    {[sel |-> SelectModel(providers, failures, rq.task_type, rq.tier,
                          rq.prefer_speed, rq.prefer_quality, ""),
      tier |-> rq.tier, task_type |-> rq.task_type] : rq \in Requests}

\* what complete can do in the current state: over the requests and over
\* whether the first and the alternative provider answer or raise
Completions ==
    {Complete(providers, failures, s.sel, s.tier, s.task_type, ok, ok2) :
        s \in FirstSelections, ok \in BOOLEAN, ok2 \in BOOLEAN}

complete ==
    /\ \E out \in Completions :
          /\ \A pr \in ProviderNames : out.failures[pr] <= MaxFailures
          /\ selection' = out.selection
          /\ failures' = out.failures
          /\ request' = out.request
    /\ UNCHANGED <<providers, nonRouterVars>>

NextRouter == complete

-----------------------------------------------------------------------------
(* Task order: DBWorkflow.tasks and the steps the interpreter visits       *)

\* order keys a workflow's tasks may carry, as their integer components
OrderKeys == {<<1>>, <<2>>, <<2, 1>>, <<2, 2>>, <<3>>, <<10>>}

\* the decimal digits of a natural number, as character codes
RECURSIVE Digits(_)
Digits(n) ==
    IF n < 10 THEN <<48 + n>>
    ELSE Digits(n \div 10) \o <<48 + (n % 10)>>

\* the String(10) stored in DBWorkflowTask.order: components joined by "."
RECURSIVE OrderString(_)
OrderString(key) ==
    IF Len(key) = 1 THEN Digits(key[1])
    ELSE Digits(key[1]) \o <<46>> \o OrderString(Tail(key))

\* the order of two strings in an ORDER BY on a string column
RECURSIVE StringLess(_, _)
StringLess(a, b) ==
    IF b = <<>> THEN FALSE
    ELSE IF a = <<>> THEN TRUE
    ELSE IF Head(a) # Head(b) THEN Head(a) < Head(b)
    ELSE StringLess(Tail(a), Tail(b))

\* relationship(..., order_by="DBWorkflowTask.order"): the rows sorted by
\* their order column
RECURSIVE OrderByOrder(_)
OrderByOrder(keys) ==
    IF keys = {} THEN <<>>
    ELSE LET first == CHOOSE k \in keys :
                        \A o \in keys \ {k} :
                            StringLess(OrderString(k), OrderString(o))
         IN <<first>> \o OrderByOrder(keys \ {first})

IdleOrder ==
    /\ task_orders = {}
    /\ task_list = <<>>
    /\ visited = <<>>

InitOrder ==
    /\ task_orders \in (SUBSET OrderKeys) \ {{}}
    /\ task_list = <<>>
    /\ visited = <<>>

\* the workflow's tasks are loaded for a run
load_tasks ==
    /\ task_list = <<>>
    /\ task_list' = OrderByOrder(task_orders)
    /\ UNCHANGED <<task_orders, visited, nonOrderVars>>

\* execute_workflow_step without failure: steps[current_step] is executed
\* and current_step grows by one
visit_step ==
    /\ task_list # <<>>
    /\ Len(visited) < Len(task_list)
    /\ visited' = Append(visited, task_list[Len(visited) + 1])
    /\ UNCHANGED <<task_orders, task_list, nonOrderVars>>

NextOrder ==
    \/ load_tasks
    \/ visit_step

\* the order of two keys compared as tuples of integers
RECURSIVE TupleLess(_, _)
TupleLess(a, b) ==
    IF b = <<>> THEN FALSE
    ELSE IF a = <<>> THEN TRUE
    ELSE IF Head(a) # Head(b) THEN Head(a) < Head(b)
    ELSE TupleLess(Tail(a), Tail(b))

\* C14: in a straight run the tasks are visited in the order of their
\* order keys compared as tuples of integers ("10" after "2").
C14_VisitedInIntegerOrder ==
    \A i \in DOMAIN visited : \A j \in DOMAIN visited :
        i < j => TupleLess(visited[i], visited[j])

\* the same service used by one session at a time
NextLLMSequential ==
    \/ month_passes
    \/ chat_begin(1)
    \/ chat_provider_error(1)
    \/ chat_log_usage(1)

RECURSIVE SumTokens(_)
SumTokens(log) ==
    IF log = <<>> THEN 0
    ELSE Head(log).total_tokens + SumTokens(Tail(log))

\* the usage rows of one billing period
RecordsOfPeriod(log, period) ==
    SelectSeq(log, LAMBDA r : r.billing_period = period)

AllCallsReturned == \A p \in Sessions : chat_pc[p] = "idle"

\* a token check has just been made for a platform tenant with a finite limit
PlatformCheckStep ==
    /\ last_check'.n = last_check.n + 1
    /\ config.usage_mode = "platform"
    /\ config.monthly_token_limit # None

\* C5 (as stated): a platform tenant with a finite limit is rejected
\* whenever limit - tokens_used < 500, and a rejected call makes no provider
\* call, writes no usage row, leaves the counter unchanged and reports
\* remaining = limit - tokens_used with the limit and the reset instant.
C5_RejectedOnStoredCounter ==
    [][PlatformCheckStep =>
        /\ (config.monthly_token_limit - config.tokens_used_this_month
                < EstimatedTokens => ~last_check'.allowed)
        /\ (~last_check'.allowed =>
                /\ provider_calls' = provider_calls
                /\ usage_log' = usage_log
                /\ config'.tokens_used_this_month = config.tokens_used_this_month
                /\ last_check'.remaining =
                      config.monthly_token_limit - config.tokens_used_this_month
                /\ last_check'.limit = config.monthly_token_limit
                /\ last_check'.reset_at = config'.limit_reset_at)]_vars

\* C5 (amended): with u0 the counter after the monthly reset that is due
\* (0 when now >= limit_reset_at, the stored counter otherwise), the call is
\* rejected whenever limit - u0 < 500; a rejected call makes no provider
\* call, writes no usage row, leaves the counter at u0 and reports
\* remaining = limit - u0, the limit and the reset instant then in force.
C5_RejectedOnCounterAfterReset ==
    [][PlatformCheckStep =>
        LET due == now >= config.limit_reset_at
            u0 == IF due THEN 0 ELSE config.tokens_used_this_month
            r0 == IF due THEN now + 1 ELSE config.limit_reset_at
        IN /\ (config.monthly_token_limit - u0 < EstimatedTokens
                    => ~last_check'.allowed)
           /\ (~last_check'.allowed =>
                    /\ provider_calls' = provider_calls
                    /\ usage_log' = usage_log
                    /\ config'.tokens_used_this_month = u0
                    /\ last_check'.remaining = config.monthly_token_limit - u0
                    /\ last_check'.limit = config.monthly_token_limit
                    /\ last_check'.reset_at = r0)]_vars

\* a call was rejected with remaining = 200 of 100000 and no later call
C5_Witness ==
    /\ config.usage_mode = "platform"
    /\ last_check.n > 0
    /\ ~last_check.allowed
    /\ last_check.remaining = 200
    /\ last_check.limit = DefaultTokenLimit
    /\ last_check.reset_at = config.limit_reset_at

\* C6: for a platform tenant, whenever every call has returned, the
\* counter equals the sum of total_tokens over the usage rows of the
\* current billing period; the counter is reset lazily, so the current
\* period is taken to be any month from the one that ends at
\* limit_reset_at up to the month of the clock.
C6_CounterMatchesPeriodRecords ==
    (config.usage_mode = "platform" /\ AllCallsReturned) =>
        \E period \in (config.limit_reset_at - 1) .. now :
            config.tokens_used_this_month =
                SumTokens(RecordsOfPeriod(usage_log, period))

\* C7: for a platform tenant whose counter was never reset, once every
\* call has returned the counter has grown by the total_tokens of every
\* recorded call, whether or not the calls overlapped.
C7_NoIncrementLost ==
    (/\ config.usage_mode = "platform"
     /\ config.limit_reset_at = NextMonthStart(FirstMonth)
     /\ AllCallsReturned)
        => config.tokens_used_this_month = SumTokens(usage_log)

\* C26: a tenant in byok or hybrid mode is never rejected by the monthly
\* quota check, whatever its counter and its limit are.
C26_QuotaOnlyInPlatformMode ==
    (last_check.n > 0 /\ config.usage_mode \in {"byok", "hybrid"})
        => last_check.allowed

\* a step in which check_token_limit runs for a tenant that is not in byok
\* mode
NonByokCheckStep ==
    /\ last_check'.n = last_check.n + 1
    /\ config.usage_mode # "byok"

\* C28: a check of a non-byok tenant at or after limit_reset_at sets the
\* counter to 0 and moves limit_reset_at to the start of the calendar month
\* after the current one, which is later than now; a check before
\* limit_reset_at changes neither the counter nor limit_reset_at.
C28_LazyMonthlyReset ==
    [][NonByokCheckStep =>
        IF now >= config.limit_reset_at
        THEN /\ config'.tokens_used_this_month = 0
             /\ YearOf(config'.limit_reset_at) * 12 + MonthOf(config'.limit_reset_at)
                    = YearOf(now) * 12 + MonthOf(now) + 1
             /\ config'.limit_reset_at > now
        ELSE /\ config'.tokens_used_this_month = config.tokens_used_this_month
             /\ config'.limit_reset_at = config.limit_reset_at]_vars

\* a check in January of the next year has just reset a counter that usage
\* rows had raised, and limit_reset_at stands at February
C28_Witness ==
    /\ config.usage_mode # "byok"
    /\ last_check.n > 0
    /\ MonthOf(now) = 1
    /\ SumTokens(usage_log) > 0
    /\ config.tokens_used_this_month = 0
    /\ config.limit_reset_at = now + 1
    /\ last_check.reset_at = config.limit_reset_at

\* C27: after any sequence of update_config calls, a tenant in byok mode
\* stores at least one key of its own.
C27_ByokModeHasKey ==
    config.usage_mode = "byok" => tenant.byok_keys # {}

\* C34: for a platform tenant with a finite monthly limit, the counter
\* never exceeds the limit, whatever the order and the overlap of the chat
\* calls.
C34_CounterWithinLimit ==
    (config.usage_mode = "platform" /\ config.monthly_token_limit # None)
        => config.tokens_used_this_month <= config.monthly_token_limit

\* the keys of TIER_MODELS from the lowest tier to the highest
LLMTierOrder == <<"free", "standard", "professional", "enterprise">>

\* get_available_models for the tenant's mode and model lists, at tier t
ModelsAtTier(t) ==
    GetAvailableModels(config.usage_mode, [tenant EXCEPT !.llm_tier = t])

\* C29: with the same allow-list and block-list, the models available at a
\* tier contain the models available at the tier below it, from free up to
\* enterprise.
C29_TierModelsNested ==
    \A i \in 1 .. Len(LLMTierOrder) - 1 :
        ModelsAtTier(LLMTierOrder[i]) \subseteq ModelsAtTier(LLMTierOrder[i + 1])

\* the pairs of MODEL_TIERS for the tiers at or below tier
TierTableUpTo(tier) ==
    UNION {SeqToSet(MODEL_TIERS[TierOrder[i]]) : i \in 1 .. TierIndex(tier)}

\* C8: whatever select_model returns for tier T, from the scored candidates
\* or from the fallback branch, is a (provider, model) pair of the tier
\* table for a tier at or below T.
C8_SelectionWithinTierTable ==
    selection.kind \in {"best", "fallback"} =>
        PM(selection.provider, selection.model)
            \in TierTableUpTo(selection.asked_tier)

\* C9: the model a chat call sends its request to is one of
\* get_available_models of the tenant: inside the tier's model set, inside
\* the allow-list when one is set, outside the block-list.
C9_CalledModelIsAvailable ==
    called # NoCall =>
        called.model \in GetAvailableModels(config.usage_mode, tenant)

\* C10: when some configured provider has at most 3 failures at the time
\* of a selection, the provider select_model returns has at most 3
\* failures, in the scored branch and in the fallback branch.
C10_SelectedProviderIsHealthy ==
    (selection.kind \in {"best", "fallback"} /\ selection.healthy_available)
        => selection.selected_failures <= 3

\* C11: in a request to complete, every provider call that raised left
\* that provider's failure count one higher than before the request, and
\* every provider call that returned left it at 0, for the first call and
\* for the call on the alternative provider.
C11_EveryCallIsCounted ==
    \A i \in DOMAIN request.calls :
        LET c == request.calls[i] IN
        IF c.raised
        THEN failures[c.provider] = request.before[c.provider] + 1
        ELSE failures[c.provider] = 0

\* C12: a request to complete makes at most two provider calls; when the
\* first call raised and the provider's count is then at most 3, it is the
\* only call and its error is surfaced; a second call is made only after
\* the first raised with a count above 3, and on a different provider.
C12_AtMostOneRetryOnAnotherProvider ==
    /\ Len(request.calls) <= 2
    /\ (/\ Len(request.calls) >= 1
        /\ request.calls[1].raised
        /\ request.before[request.calls[1].provider] + 1 <= 3)
          => /\ Len(request.calls) = 1
             /\ request.surfaced = Surfaced("error", request.calls[1].provider)
    /\ Len(request.calls) = 2
          => /\ request.calls[1].raised
             /\ request.before[request.calls[1].provider] + 1 > 3
             /\ request.calls[2].provider # request.calls[1].provider

\* a request whose first call raised for the fourth time and which was
\* retried on another provider
C12_Witness ==
    /\ Len(request.calls) = 2
    /\ request.before[request.calls[1].provider] = 3
    /\ request.calls[2].provider # request.calls[1].provider

\* C13: when the call on the alternative provider raises too, the error
\* surfaced by complete is the error of the first provider.
C13_OriginalErrorSurfaced ==
    (Len(request.calls) = 2 /\ request.calls[2].raised)
        => request.surfaced = Surfaced("error", request.calls[1].provider)

-----------------------------------------------------------------------------
(* One execute_workflow job and its deliveries to a worker                 *)
(* (worker/main.py execute_workflow, workflow_tasks.py run_workflow)       *)

Workflows ==
    {[found |-> FALSE, tasks |-> <<>>]}
        \cup {[found |-> TRUE, tasks |-> t] : t \in TaskLists}

NoRuns == [i \in 1..MaxTasks |-> 0]

IdleJob ==
    /\ job_workflow = [found |-> FALSE, tasks |-> <<>>]
    /\ job_pc = "none"
    /\ job_graph = NoGraph
    /\ deliveries = 0
    /\ executions = <<>>
    /\ task_runs = NoRuns
    /\ job_events = <<>>
    /\ done_at_crash = {}

\* one job waits in the worker's queue
InitJob ==
    /\ job_workflow \in Workflows
    /\ job_pc = "waiting"
    /\ job_graph = NoGraph
    /\ deliveries = 0
    /\ executions = <<>>
    /\ task_runs = NoRuns
    /\ job_events = <<>>
    /\ done_at_crash = {}

\* str(uuid.uuid4()): an id no earlier run has
NewExecutionId(ids) == Len(ids) + 1

\* publish_workflow_event(event_type, data with the execution id)
WorkflowEvent(event_type, execution_id) ==
    [type |-> event_type, execution_id |-> execution_id]

CurrentExecutionId == executions[Len(executions)]

\* the positions of the tasks execute_workflow_step has completed in g
CompletedSteps(g) ==
    {i \in 1..Len(g.step_results) : g.step_results[i] = "success"}

\* the worker takes the job: execute_workflow calls run_workflow without an
\* execution id; run_workflow up to the try
job_take ==
    /\ job_pc = "waiting"
    /\ deliveries < MaxDeliveries
    /\ deliveries' = deliveries + 1
    /\ LET execution_id == NewExecutionId(executions)
       IN /\ executions' = Append(executions, execution_id)
          /\ job_events' = Append(job_events, WorkflowEvent("started", execution_id))
    /\ job_pc' = "load"
    /\ UNCHANGED <<job_workflow, job_graph, task_runs, done_at_crash, nonJobVars>>

\* load_workflow_from_backend, then graph.ainvoke with current_step 0
job_load ==
    /\ job_pc = "load"
    /\ IF job_workflow.found
       THEN /\ job_graph' = InitializeWorkflow
            /\ job_pc' = "graph"
       ELSE /\ job_pc' = "except"
            /\ UNCHANGED job_graph
    /\ UNCHANGED <<job_workflow, deliveries, executions, task_runs,
                   job_events, done_at_crash, nonJobVars>>

\* node execute_step: the task at current_step is executed
job_execute_step ==
    /\ job_pc = "graph"
    /\ job_graph.node = "execute_step"
    /\ LET tasks == job_workflow.tasks
           g == StepUpdate(job_graph, tasks)
       IN /\ job_graph' = [g EXCEPT !.node = RouteAfterStep(g, tasks)]
          /\ task_runs' =
                IF job_graph.current_step < Len(tasks)
                THEN [task_runs EXCEPT ![job_graph.current_step + 1] = @ + 1]
                ELSE task_runs
    /\ UNCHANGED <<job_workflow, job_pc, deliveries, executions, job_events,
                   done_at_crash, nonJobVars>>

\* nodes check_condition and handle_error with their edges
job_route ==
    /\ job_pc = "graph"
    /\ job_graph.node \in {"check_condition", "handle_error"}
    /\ job_graph' =
          IF job_graph.node = "check_condition"
          THEN [job_graph EXCEPT !.node = RouteAfterCondition(job_graph, job_workflow.tasks)]
          ELSE [job_graph EXCEPT !.status = "failed", !.node = "finalize"]
    /\ UNCHANGED <<job_workflow, job_pc, deliveries, executions, task_runs,
                   job_events, done_at_crash, nonJobVars>>

\* node finalize, then the rest of the try branch: workflow.completed
job_complete ==
    /\ job_pc = "graph"
    /\ job_graph.node = "finalize"
    /\ job_graph' = [job_graph EXCEPT !.status = FinalizeStatus(job_graph), !.node = "end"]
    /\ job_events' = Append(job_events, WorkflowEvent("completed", CurrentExecutionId))
    /\ job_pc' = "finished"
    /\ UNCHANGED <<job_workflow, deliveries, executions, task_runs,
                   done_at_crash, nonJobVars>>

\* the except branch: workflow.failed
job_except ==
    /\ job_pc = "except"
    /\ job_events' = Append(job_events, WorkflowEvent("failed", CurrentExecutionId))
    /\ job_pc' = "finished"
    /\ UNCHANGED <<job_workflow, job_graph, deliveries, executions, task_runs,
                   done_at_crash, nonJobVars>>

\* the worker process dies inside run_workflow; the job is still queued
worker_crash ==
    /\ job_pc \in {"load", "graph", "except"}
    /\ done_at_crash' = done_at_crash \cup CompletedSteps(job_graph)
    /\ job_pc' = "waiting"
    /\ UNCHANGED <<job_workflow, job_graph, deliveries, executions, task_runs,
                   job_events, nonJobVars>>

\* at-least-once delivery: the finished job is handed to a worker again
job_redelivered ==
    /\ job_pc = "finished"
    /\ job_pc' = "waiting"
    /\ UNCHANGED <<job_workflow, job_graph, deliveries, executions, task_runs,
                   job_events, done_at_crash, nonJobVars>>

NextJob ==
    \/ job_take
    \/ job_load
    \/ job_execute_step
    \/ job_route
    \/ job_complete
    \/ job_except
    \/ worker_crash
    \/ job_redelivered

EventCount(types) ==
    Cardinality({i \in 1..Len(job_events) : job_events[i].type \in types})

\* C15: a task that had completed when a worker crashed is not executed
\* again when the job is run again.
C15_CompletedTaskNotExecutedAgain ==
    \A i \in done_at_crash : task_runs[i] <= 1

\* C16: a job delivered twice (no crash in between) has one execution id,
\* runs each task at most once and publishes one workflow.started and one
\* terminal event.
C16_SecondDeliveryChangesNothing ==
    (deliveries >= 2 /\ done_at_crash = {})
        => /\ Len(executions) = 1
           /\ \A i \in 1..MaxTasks : task_runs[i] <= 1
           /\ EventCount({"started"}) = 1
           /\ EventCount({"completed", "failed"}) <= 1

-----------------------------------------------------------------------------
(* Job queues: the producers, the ARQ worker and the scheduled job         *)
(* (queue_service.py, scheduled_tasks.py, worker/main.py WorkerSettings)   *)

Priorities == {"high", "normal", "low"}

\* QueueService.enqueue_workflow: the Redis key the envelope is pushed to
ProducerQueue(priority) ==
    IF priority # "normal" THEN "arq:queue:" \o priority ELSE "arq:queue:default"

\* queue_workflow_execution: create_pool(...).enqueue_job without a queue
\* name uses the pool's default queue
PoolDefaultQueue == "arq:queue"

\* WorkerSettings.queue_name: the one key the worker polls
WorkerQueue == "agent-saas:default"

QueueNames ==
    {ProducerQueue(p) : p \in Priorities} \cup {PoolDefaultQueue, WorkerQueue}

Envelope(task, id) == [task |-> task, id |-> id]

NoQueues == [q \in QueueNames |-> <<>>]

\* DBScheduledJob: an active job due at next_run, never run
ScheduledJob(next_run) == [next_run |-> next_run, last_run |-> None, is_active |-> TRUE]

\* GET /api/scheduled-jobs/pending: the active jobs with next_run <= now
PendingJobs(job, t) ==
    IF job.is_active /\ job.next_run <= t THEN {job} ELSE {}

IdleQueue ==
    /\ queues = NoQueues
    /\ executed = {}
    /\ enqueued_count = 0
    /\ clock = 0
    /\ sched = ScheduledJob(0)
    /\ fires = <<>>

InitQueue ==
    /\ queues = NoQueues
    /\ executed = {}
    /\ enqueued_count = 0
    /\ clock = 0
    /\ sched \in {ScheduledJob(t) : t \in 1..2}
    /\ fires = <<>>

Push(qs, q, env) == [qs EXCEPT ![q] = Append(@, env)]

\* QueueService.enqueue_workflow(priority): rpush of the envelope
enqueue_workflow ==
    /\ enqueued_count < MaxJobs
    /\ \E priority \in Priorities :
         queues' = Push(queues, ProducerQueue(priority),
                        Envelope("execute_workflow", enqueued_count + 1))
    /\ enqueued_count' = enqueued_count + 1
    /\ UNCHANGED <<executed, clock, sched, fires, nonQueueVars>>

\* minute 0, 15, 30, 45: the worker enqueues its cron job on its own queue
\* (every instant from MaxTicks on is after the job's next_run: the clock
\* stays there)
cron_fire ==
    /\ Len(queues[WorkerQueue]) < MaxTicks
    /\ clock' = IF clock < MaxTicks THEN clock + 1 ELSE clock
    /\ queues' = Push(queues, WorkerQueue, Envelope("check_pending_workflows", 0))
    /\ UNCHANGED <<executed, enqueued_count, sched, fires, nonQueueVars>>

\* process_pending_workflows: the envelopes it enqueues and their fires
ProcessPendingWorkflows(qs, status_ok) ==
    IF status_ok /\ PendingJobs(sched, clock) # {}
    THEN [queues |-> Push(qs, PoolDefaultQueue,
                          Envelope("execute_workflow", enqueued_count + 1)),
          count |-> enqueued_count + 1,
          fires |-> Append(fires, sched.next_run)]
    ELSE [queues |-> qs, count |-> enqueued_count, fires |-> fires]

\* the worker takes the first job waiting under its queue name and runs
\* the function the job names
worker_poll ==
    /\ queues[WorkerQueue] # <<>>
    /\ LET job == Head(queues[WorkerQueue])
           rest == [queues EXCEPT ![WorkerQueue] = Tail(@)]
       IN IF job.task = "check_pending_workflows"
          THEN /\ \E status_ok \in BOOLEAN :
                    LET out == ProcessPendingWorkflows(rest, status_ok)
                    IN /\ out.count <= MaxJobs + MaxTicks
                       /\ queues' = out.queues
                       /\ enqueued_count' = out.count
                       /\ fires' = out.fires
               /\ UNCHANGED executed
          ELSE /\ queues' = rest
               /\ executed' = executed \cup {job.id}
               /\ UNCHANGED <<enqueued_count, fires>>
    /\ UNCHANGED <<clock, sched, nonQueueVars>>

NextQueue ==
    \/ enqueue_workflow
    \/ cron_fire
    \/ worker_poll

JobIds == 1..(MaxJobs + MaxTicks)

Waiting(id) ==
    \E q \in QueueNames : \E i \in 1..Len(queues[q]) :
        queues[q][i] = Envelope("execute_workflow", id)

\* C17: every execute_workflow envelope a producer enqueued is eventually
\* taken and executed by the running worker.
C17_EveryEnqueuedJobIsExecuted ==
    \A id \in JobIds : Waiting(id) ~> (id \in executed)

FiresFor(t) == Cardinality({i \in 1..Len(fires) : fires[i] = t})

\* C18: a due scheduled job is enqueued once per fire instant, and once it
\* was enqueued last_run is set and next_run lies after now.
C18_EnqueuedOncePerFire ==
    /\ \A t \in 0..MaxTicks : FiresFor(t) <= 1
    /\ fires # <<>> => (sched.last_run # None /\ sched.next_run > clock)

-----------------------------------------------------------------------------
(* Events: EventService.publish and subscribe, the worker's workflow.*     *)
(* events (event_service.py, workflow_tasks.py)                            *)

Tenants == {"t1", "t2"}

Users == {"u1", "u2"}

\* the tenant of the workflow run that publishes
RunTenant == "t1"

\* the tasks of that workflow; all of them succeed
RunTasks == 3

\* f"events:{tenant_id}"
Channel(tenant_id) == "events:" \o tenant_id

\* the event dictionary of EventService.publish; in_run marks the events
\* of the workflow run, seq numbers the events in the order published
Event(seq, event_type, tenant_id, user_id, in_run) ==
    [seq |-> seq, type |-> event_type, tenant_id |-> tenant_id,
     user_id |-> user_id, in_run |-> in_run]

\* the initial event subscribe yields
Connected(tenant_id) == Event(0, "connected", tenant_id, Null, FALSE)

\* subscribe's filter: no event is skipped
SkippedForUserNever(user_id, event_user_id) == FALSE

\* subscribe's filter: the event is skipped (continue)
SkippedForUser(user_id, event_user_id) ==
    Truthy(user_id) /\ Truthy(event_user_id) /\ event_user_id # user_id

\* self._connections of a new EventService: no tenant has a queue
NoConnections == [t \in Tenants |-> 0]

NoSubscriber == [pc |-> "closed", tenant_id |-> Null, user_id |-> Null]

IdleSSE ==
    /\ sub = NoSubscriber
    /\ stream = <<>>
    /\ inbox = <<>>
    /\ published = <<>>
    /\ run_pc = "idle"
    /\ run_results = 0
    /\ run_watched = FALSE
    /\ connections = NoConnections

InitSSE ==
    /\ sub = NoSubscriber
    /\ stream = <<>>
    /\ inbox = <<>>
    /\ published = <<>>
    /\ run_pc = "idle"
    /\ run_results = 0
    /\ run_watched = FALSE
    /\ connections = NoConnections

Listening == sub.pc = "listening"

\* redis.publish(channel, json.dumps(event)): Redis hands the message to
\* the connections subscribed to the channel at that moment
Deliver(ev) ==
    /\ published' = Append(published,
            [event |-> ev, heard |-> Listening,
             connected |-> sub.pc \in {"connected", "listening"}])
    /\ inbox' = IF Listening /\ Channel(sub.tenant_id) = Channel(ev.tenant_id)
                THEN Append(inbox, ev)
                ELSE inbox

\* subscribe(tenant_id, user_id) up to the first yield: connected
subscribe_open ==
    /\ sub.pc = "closed"
    /\ stream = <<>>
    /\ \E tenant_id \in Tenants, user_id \in Users \cup {Null} :
         /\ sub' = [pc |-> "connected", tenant_id |-> tenant_id, user_id |-> user_id]
         /\ stream' = <<Connected(tenant_id)>>
         /\ connections' = [connections EXCEPT ![tenant_id] = @ + 1]
    /\ UNCHANGED <<inbox, published, run_pc, run_results, run_watched, nonSSEVars>>

\* the generator is resumed: pubsub.subscribe(channel)
subscribe_listen ==
    /\ sub.pc = "connected"
    /\ sub' = [sub EXCEPT !.pc = "listening"]
    /\ UNCHANGED <<stream, inbox, published, run_pc, run_results, run_watched, connections, nonSSEVars>>

\* one turn of the listen loop: a message is read, filtered, yielded
subscribe_next ==
    /\ Listening
    /\ inbox # <<>>
    /\ LET event_data == Head(inbox)
       IN stream' = IF SkippedForUser(sub.user_id, event_data.user_id)
                    THEN stream
                    ELSE Append(stream, event_data)
    /\ inbox' = Tail(inbox)
    /\ UNCHANGED <<sub, published, run_pc, run_results, run_watched, connections, nonSSEVars>>

\* the finally clause: self._connections[tenant_id].discard(queue)
Discard(tenant_id) == [connections EXCEPT ![tenant_id] = @ - 1]

\* the client goes away while the generator is inside the try:
\* CancelledError, the finally clause, unsubscribe
subscribe_close ==
    /\ Listening
    /\ sub' = [sub EXCEPT !.pc = "gone"]
    /\ inbox' = <<>>
    /\ connections' = Discard(sub.tenant_id)
    /\ UNCHANGED <<stream, published, run_pc, run_results, run_watched, nonSSEVars>>

\* the generator is resumed and get_redis or pubsub.subscribe raises: the
\* exception leaves through the finally clause
subscribe_error ==
    /\ sub.pc = "connected"
    /\ sub' = [sub EXCEPT !.pc = "gone"]
    /\ connections' = Discard(sub.tenant_id)
    /\ UNCHANGED <<stream, inbox, published, run_pc, run_results, run_watched, nonSSEVars>>

\* the client closes the stream while the generator is suspended at the
\* yield of the connected record, which stands before the try: the
\* generator is closed there and no finally clause runs
subscribe_abandon ==
    /\ sub.pc = "connected"
    /\ sub' = [sub EXCEPT !.pc = "gone"]
    /\ UNCHANGED <<stream, inbox, published, run_pc, run_results, run_watched, connections, nonSSEVars>>

BackendEvents ==
    Cardinality({i \in 1..Len(published) : ~published[i].event.in_run})

\* EventService.publish(event_type, tenant_id, data, user_id)
publish ==
    /\ BackendEvents < MaxEvents
    /\ \E tenant_id \in Tenants, user_id \in Users \cup {Null} :
         Deliver(Event(Len(published) + 1, "agent.response", tenant_id, user_id, FALSE))
    /\ UNCHANGED <<sub, stream, run_pc, run_results, run_watched, connections, nonSSEVars>>

\* run_workflow up to the try: workflow.started (the worker's event
\* dictionary has no user_id key)
run_publish_started ==
    /\ run_pc = "idle"
    /\ Deliver(Event(Len(published) + 1, "workflow.started", RunTenant, Null, TRUE))
    /\ run_watched' = (Listening /\ sub.tenant_id = RunTenant)
    /\ run_pc' = "started"
    /\ UNCHANGED <<sub, stream, run_results, connections, nonSSEVars>>

\* execute_workflow_step of a task that succeeds: a step result, no event
run_step ==
    /\ run_pc = "started"
    /\ run_results < RunTasks
    /\ run_results' = run_results + 1
    /\ UNCHANGED <<sub, stream, inbox, published, run_pc, run_watched, connections, nonSSEVars>>

\* the rest of the try branch: workflow.completed
run_publish_completed ==
    /\ run_pc = "started"
    /\ run_results = RunTasks
    /\ Deliver(Event(Len(published) + 1, "workflow.completed", RunTenant, Null, TRUE))
    /\ run_pc' = "done"
    /\ UNCHANGED <<sub, stream, run_results, run_watched, connections, nonSSEVars>>

NextSSE ==
    \/ subscribe_open
    \/ subscribe_listen
    \/ subscribe_next
    \/ subscribe_close
    \/ subscribe_error
    \/ subscribe_abandon
    \/ publish
    \/ run_publish_started
    \/ run_step
    \/ run_publish_completed

Types(evs) == [i \in 1..Len(evs) |-> evs[i].type]

OfRun(ev) == ev.type = "connected" \/ ev.in_run

StepEvents == [i \in 1..RunTasks |-> "workflow.step_completed"]

\* C19: a subscriber listening on the run's tenant before the run starts
\* has received, once the run is over, connected, workflow.started, one
\* workflow.step_completed per task and workflow.completed, in this order.
C19_SubscriberSeesEveryStep ==
    (run_watched /\ run_pc = "done" /\ Listening /\ inbox = <<>>)
        => Types(SelectSeq(stream, OfRun))
             = <<"connected", "workflow.started">> \o StepEvents \o <<"workflow.completed">>

ForSubscriber(ev) ==
    /\ ev.tenant_id = sub.tenant_id
    /\ sub.user_id # Null => ev.user_id \in {Null, sub.user_id}

HeardForSubscriber(rec) == rec.heard /\ ForSubscriber(rec.event)

EventsOf(recs) == [i \in 1..Len(recs) |-> recs[i].event]

\* C20: the subscriber (T, U) receives only events of tenant T whose
\* user_id is null or U, and it receives every such event published while
\* it listens: its stream is a function of those events alone.
C20_StreamIsOwnTenantAndUser ==
    /\ \A i \in 1..Len(stream) : ForSubscriber(stream[i])
    /\ Listening =>
         Tail(stream) \o SelectSeq(inbox, ForSubscriber)
            = EventsOf(SelectSeq(published, HeardForSubscriber))

\* a subscriber with a user has skipped another user's event of its tenant,
\* another tenant's event was published meanwhile, and one event was yielded
C20_Witness ==
    /\ Listening
    /\ sub.user_id # Null
    /\ inbox = <<>>
    /\ Len(stream) >= 2
    /\ \E i \in 1..Len(published) :
         /\ published[i].heard
         /\ published[i].event.tenant_id = sub.tenant_id
         /\ published[i].event.user_id \notin {Null, sub.user_id}
    /\ \E j \in 1..Len(published) :
         /\ published[j].heard
         /\ published[j].event.tenant_id # sub.tenant_id

\* Groq is configured and healthy, and every other configured provider is
\* unhealthy
OnlyGroqHealthy ==
    /\ "groq" \in SeqToSet(providers)
    /\ \A pr \in SeqToSet(providers) : Unhealthy(failures, pr) <=> pr # "groq"

\* C33: when Groq is the only healthy provider, select_model for a
\* summarize task at the free tier, with no preference flag and no required
\* provider, returns groq with llama-3.3-70b-versatile.
C33_SummarizeOnFreeTierPicksLlama70b ==
    OnlyGroqHealthy =>
        LET sel == SelectModel(providers, failures, "summarize", "free",
                               FALSE, FALSE, "")
        IN /\ sel.provider = "groq"
           /\ sel.model = "llama-3.3-70b-versatile"

\* the record of an event published after the subscriber was handed its
\* connected record, and meant for it
SinceConnectedForSubscriber(rec) == rec.connected /\ ForSubscriber(rec.event)

\* C35: every event of the subscriber's tenant published after the
\* subscriber was handed its connected record is delivered to it: once it
\* listens, its stream and its unread messages hold all of them.
C35_NothingLostAfterConnected ==
    Listening =>
        Tail(stream) \o SelectSeq(inbox, ForSubscriber)
            = EventsOf(SelectSeq(published, SinceConnectedForSubscriber))

\* the subscribers of tenant t still attached
Attached(t) ==
    IF sub.pc \in {"connected", "listening"} /\ sub.tenant_id = t THEN 1 ELSE 0

\* C40: get_connection_count(tenant) equals the number of subscribers of
\* the tenant still attached, however a subscriber's stream ended.
C40_RegistryMatchesSubscribers ==
    \A t \in Tenants : connections[t] = Attached(t)

\* a step of the graph in which a task is executed: execute_step appends
\* one step result
ExecutesTask ==
    /\ wpc = "graph"
    /\ Len(graph'.step_results) = Len(graph.step_results) + 1

PublishedCount(types) ==
    Cardinality({i \in 1..Len(events) : events[i] \in types})

\* C36: a run whose initial state write succeeded publishes
\* workflow.started once, before anything else, and publishes exactly one
\* of workflow.completed and workflow.failed by the time it ends.
C36_StartedThenOneTerminalEvent ==
    /\ wpc # "idle" => (PublishedCount({"started"}) = 1 /\ events[1] = "started")
    /\ PublishedCount({"completed", "failed"}) <= 1
    /\ wpc = "done" => PublishedCount({"completed", "failed"}) = 1

-----------------------------------------------------------------------------
(* The chat endpoint: keyword routing and handoff                          *)

\* the agents seeded in the database, all active
DBAgents ==
    {"agent-orchestrator", "agent-planning", "agent-communication",
     "agent-prospection", "agent-devis", "agent-seo-audit",
     "agent-seo-content", "agent-facturation", "agent-strategie",
     "agent-reporting", "agent-support"}

\* the keys of ROUTING_KEYWORDS in dictionary order
RoutingOrder ==
    <<"agent-prospection", "agent-devis", "agent-seo-audit",
      "agent-seo-content", "agent-facturation", "agent-planning",
      "agent-strategie", "agent-reporting">>

ROUTING_KEYWORDS ==
    [a \in SeqToSet(RoutingOrder) |->
        CASE a = "agent-prospection" ->
               {"prospect", "prospecter", "démarcher", "nouveau client",
                "nouveaux clients", "trouver des clients", "email froid",
                "cold email", "cherche des clients", "acquisition client"}
          [] a = "agent-devis" ->
               {"devis", "proposition", "tarif", "prix", "offre commerciale",
                "chiffrer", "estimation"}
          [] a = "agent-seo-audit" ->
               {"audit", "analyser site", "seo", "référencement",
                "position google", "erreurs site", "performance"}
          [] a = "agent-seo-content" ->
               {"article", "blog", "rédiger", "contenu", "texte", "page web",
                "fiche produit", "écrire"}
          [] a = "agent-facturation" ->
               {"facture", "facturer", "paiement", "relance", "impayé",
                "encaissement", "règlement"}
          [] a = "agent-planning" ->
               {"planning", "agenda", "rendez-vous", "réunion", "organiser",
                "calendrier", "projet", "deadline"}
          [] a = "agent-strategie" ->
               {"stratégie", "concurrent", "positionnement", "marché",
                "décision", "business", "développer"}
          [] a = "agent-reporting" ->
               {"rapport", "reporting", "statistiques", "chiffres", "bilan",
                "tableau de bord", "kpi"}]

\* a message is the set of the words it is made of, taken from Words
Words == {"bonjour", "Prospecter", "devis", "tarif", "Facture"}

\* str.lower on the words of Words
Lower(word) ==
    CASE word = "Prospecter" -> "prospecter"
      [] word = "Facture" -> "facture"
      [] OTHER -> word

\* the pairs (keyword, lower-case word of Words) where the keyword is a
\* proper substring of the word
ProperSubstrings == {<<"prospect", "prospecter">>}

\* detect_best_agent: "keyword in message_lower"
OccursIn(keyword, message) ==
    \E word \in message :
        \/ keyword = Lower(word)
        \/ <<keyword, Lower(word)>> \in ProperSubstrings

\* detect_best_agent: the score of one agent
Score(agent, message) ==
    Cardinality({keyword \in ROUTING_KEYWORDS[agent] : OccursIn(keyword, message)})

\* detect_best_agent: the loop over ROUTING_KEYWORDS from position i on,
\* "if score > best_score"
RECURSIVE BestFrom(_, _, _, _)
BestFrom(message, i, best_match, best_score) ==
    IF i > Len(RoutingOrder)
    THEN [match |-> best_match, score |-> best_score]
    ELSE IF Score(RoutingOrder[i], message) > best_score
         THEN BestFrom(message, i + 1, RoutingOrder[i],
                       Score(RoutingOrder[i], message))
         ELSE BestFrom(message, i + 1, best_match, best_score)

\* detect_best_agent: the agent id returned, Null for (None, None)
DetectBestAgent(message, current_agent_id) ==
    LET best == BestFrom(message, 1, Null, 0) IN
    IF best.match = current_agent_id THEN Null
    ELSE IF best.score >= 1 THEN best.match
    ELSE Null

\* the agent_id of a ChatRequest: none, the orchestrator, specialised
\* agents with and without routing keywords, an id no agent has
RequestAgents ==
    {Null, "agent-orchestrator", "agent-devis", "agent-facturation",
     "agent-support", "agent-unknown"}

\* db.query(DBAgent).filter(DBAgent.id == id).first()
FindAgent(id) == IF Truthy(id) /\ id \in DBAgents THEN id ELSE Null

NoConversation == [agent_id |-> Null, messages |-> 0]

NoTurn ==
    [turns |-> 0, agent_id |-> Null, message |-> {}, current_agent |-> Null,
     handoff_to |-> Null, response_agent |-> Null]

IdleTalk ==
    /\ conversation = NoConversation
    /\ handled = NoTurn

InitTalk == IdleTalk

\* chat: the agent detect_best_agent is asked for, only without a current
\* agent or with the orchestrator
BestAgentId(current_agent, message) ==
    IF current_agent = Null \/ current_agent = "agent-orchestrator"
    THEN DetectBestAgent(message, Null)
    ELSE Null

\* POST /api/chat: one turn of the conversation; the first turn creates the
\* row with the agent_id of the request
chat ==
    \E agent_id \in RequestAgents, message \in SUBSET Words :
        /\ handled.turns < MaxTurns
        /\ LET row == IF conversation.messages = 0
                      THEN [agent_id |-> agent_id, messages |-> 0]
                      ELSE conversation
               current_agent == FindAgent(agent_id)
               target_agent == FindAgent(BestAgentId(current_agent, message))
           IN /\ conversation' =
                    [agent_id |-> IF target_agent # Null THEN target_agent
                                  ELSE row.agent_id,
                     messages |-> row.messages + 2]
              /\ handled' =
                    [turns |-> handled.turns + 1,
                     agent_id |-> agent_id,
                     message |-> message,
                     current_agent |-> current_agent,
                     handoff_to |-> target_agent,
                     response_agent |-> IF target_agent # Null
                                        THEN target_agent ELSE current_agent]
        /\ UNCHANGED nonTalkVars

NextTalk == chat

\* the highest keyword-match count of a message
BestScore(message) ==
    CHOOSE n \in 0 .. Cardinality(Words) + 1 :
        /\ \A a \in SeqToSet(RoutingOrder) : Score(a, message) <= n
        /\ n > 0 => \E a \in SeqToSet(RoutingOrder) : Score(a, message) = n

\* the agents with the highest count
TopAgents(message) ==
    {a \in SeqToSet(RoutingOrder) : Score(a, message) = BestScore(message)}

\* C30: after a chat turn: when the highest keyword-match count is at
\* least 1 and the current agent (none, the orchestrator or a specialised
\* agent) is not an agent with that count, the turn hands off to an agent
\* with that count, which answers and becomes the conversation's agent;
\* when the count is 0, or the current agent is the only agent with that
\* count, there is no handoff and the current agent answers.
C30_HandoffIffBestDiffersFromCurrent ==
    handled.turns > 0 =>
        /\ (/\ BestScore(handled.message) >= 1
            /\ handled.current_agent \notin TopAgents(handled.message))
              => /\ handled.handoff_to \in TopAgents(handled.message)
                 /\ handled.response_agent = handled.handoff_to
                 /\ conversation.agent_id = handled.handoff_to
        /\ (\/ BestScore(handled.message) = 0
            \/ TopAgents(handled.message) = {handled.current_agent})
              => /\ handled.handoff_to = Null
                 /\ handled.response_agent = handled.current_agent

-----------------------------------------------------------------------------
(* The execute_workflow_step task: tool and loop steps                     *)

\* AVAILABLE_TOOLS: the keys of the worker's tool registry
AVAILABLE_TOOLS == {"email", "calendar", "crm"}

\* DBMCPTool.status
ToolStatuses == {"active", "beta", "coming_soon", "disabled"}

\* execute_loop_step: config.get("max_iterations", 100)
DefaultMaxIterations == 100

\* the lengths of the sequence a loop step is given
ItemCounts == {0, 1, 100, 101, 250}

\* the max_iterations a loop step's config holds, None when it holds none
MaxIterationsConfigs == {None, 2, 250}

\* execute_loop_step: len(items[:max_iterations])
SliceLen(n, max_iterations) == IF n < max_iterations THEN n ELSE max_iterations

\* execute_loop_step: the number of iterations made
LoopIterations(n, configured) ==
    SliceLen(n, IF configured = None THEN DefaultMaxIterations ELSE configured)

StepTypes ==
    {"llm_generate", "tool_call", "condition", "loop", "human_approval",
     "unknown"}

\* execute_workflow_step: the dict it returns, with the input of a loop
StepOut(status, step_type, tool_id, items, iterations) ==
    [status |-> status, step_type |-> step_type, tool_id |-> tool_id,
     items |-> items, iterations |-> iterations]

NoStepOut == StepOut("none", Null, Null, None, None)

NoRun == [tool_id |-> Null, status |-> Null]

\* the tools as seeded: every row of the three categories is active
IdleStep ==
    /\ tool_status = [t \in AVAILABLE_TOOLS |-> "active"]
    /\ step_out = NoStepOut
    /\ tool_ran = NoRun

InitStep == IdleStep

\* PUT /api/mcp-tools/{tool_id}: the status column is set to what was sent
update_mcp_tool ==
    \E t \in AVAILABLE_TOOLS, status \in ToolStatuses :
        /\ tool_status' = [tool_status EXCEPT ![t] = status]
        /\ UNCHANGED <<step_out, tool_ran, nonStepVars>>

\* execute_workflow_step for a tool_call step: get_tool_by_id raises for an
\* id outside the registry, otherwise tool.run is called and may raise
ToolStep ==
    \E tool_id \in AVAILABLE_TOOLS \cup {"unknown-tool"}, raises \in BOOLEAN :
        IF tool_id \notin AVAILABLE_TOOLS
        THEN /\ step_out' = StepOut("failed", "tool_call", tool_id, None, None)
             /\ UNCHANGED tool_ran
        ELSE /\ tool_ran' = [tool_id |-> tool_id, status |-> tool_status[tool_id]]
             /\ step_out' = StepOut(IF raises THEN "failed" ELSE "success",
                                    "tool_call", tool_id, None, None)

\* execute_workflow_step for a loop step
LoopStep ==
    \E n \in ItemCounts, configured \in MaxIterationsConfigs :
        /\ step_out' = StepOut("success", "loop", Null, n,
                               LoopIterations(n, configured))
        /\ UNCHANGED tool_ran

\* execute_workflow_step for the other step types: the LLM call may raise,
\* an unknown type raises ValueError
OtherStep ==
    \E step_type \in StepTypes \ {"tool_call", "loop"}, raises \in BOOLEAN :
        /\ step_out' =
              StepOut(IF step_type = "unknown" \/ (step_type = "llm_generate" /\ raises)
                      THEN "failed" ELSE "success",
                      step_type, Null, None, None)
        /\ UNCHANGED tool_ran

execute_workflow_step ==
    /\ ToolStep \/ LoopStep \/ OtherStep
    /\ UNCHANGED <<tool_status, nonStepVars>>

NextStep == update_mcp_tool \/ execute_workflow_step

\* C31: a loop step never makes more than 100 iterations, and a loop over
\* more than 100 elements fails instead of succeeding on a truncated
\* sequence.
C31_LoopBoundedAndFailsBeyond ==
    step_out.step_type = "loop" =>
        /\ step_out.iterations <= 100
        /\ step_out.items > 100 => step_out.status = "failed"

\* C32: the run entry of a tool is never called while the tool's status is
\* not active.
C32_InactiveToolNeverInvoked ==
    tool_ran # NoRun => tool_ran.status = "active"

-----------------------------------------------------------------------------
(* The tool-agent graph: initialize, agent, tools, finalize                *)

\* settings.MAX_ITERATIONS as shipped
MAX_ITERATIONS == 25

\* the values the MAX_ITERATIONS setting is given
IterationSettings == {1, 2, MAX_ITERATIONS}

\* the AgentState of run_agent_task's ainvoke: one user message, no
\* iteration, no error; runs counts the agent and the tools node
NoAgentState ==
    [node |-> "idle", iteration |-> 0, messages |-> 0, error |-> FALSE,
     tool_calls |-> FALSE, agent_runs |-> 0, tool_runs |-> 0]

IdleAgent ==
    /\ agent_settings = [MAX_ITERATIONS |-> MAX_ITERATIONS, llm_configured |-> TRUE]
    /\ agent_state = NoAgentState

InitAgent ==
    /\ agent_settings \in [MAX_ITERATIONS : IterationSettings, llm_configured : BOOLEAN]
    /\ agent_state = NoAgentState

\* should_use_tools, for a state whose last message is the agent's; both
\* "finalize" and "error" lead to the finalize node
ShouldUseToolsUnbounded(st, max_iterations) ==
    IF st.messages = 0 THEN "finalize"
    ELSE IF st.error THEN "finalize"
    ELSE IF st.tool_calls THEN "tools"
    ELSE "finalize"

ShouldUseTools(st, max_iterations) ==
    IF st.messages = 0 THEN "finalize"
    ELSE IF st.error THEN "finalize"
    ELSE IF st.iteration >= max_iterations THEN "finalize"
    ELSE IF st.tool_calls THEN "tools"
    ELSE "finalize"

\* create_error_response: the error, and the messages with one more
CreateErrorResponse(st) ==
    [st EXCEPT !.error = TRUE, !.messages = 2 * @ + 1, !.tool_calls = FALSE]

\* agent_node: what the LLM call does: it raises, or answers with or
\* without tool calls
LLMOutcomes == {"raise", "answer", "tool_calls"}

\* agent_node: the state update it returns
AgentUpdate(st, outcome) ==
    IF ~agent_settings.llm_configured \/ outcome = "raise"
    THEN CreateErrorResponse(st)
    ELSE [st EXCEPT !.messages = @ + 1,
                    !.iteration = @ + 1,
                    !.tool_calls = (outcome = "tool_calls")]

\* graph.ainvoke enters the graph: initialize_node, then the edge to agent
agent_initialize ==
    /\ agent_state.node = "idle"
    /\ agent_state' = [agent_state EXCEPT !.iteration = @ + 1,
                                           !.messages = 1,
                                           !.node = "agent"]
    /\ UNCHANGED <<agent_settings, nonAgentVars>>

\* node agent and its conditional edge
agent_node ==
    /\ agent_state.node = "agent"
    /\ \E st \in {AgentUpdate(agent_state, outcome) : outcome \in LLMOutcomes} :
         agent_state' =
            [st EXCEPT !.agent_runs = @ + 1,
                       !.node = ShouldUseTools(st, agent_settings.MAX_ITERATIONS)]
    /\ UNCHANGED <<agent_settings, nonAgentVars>>

\* node tools (get_tools_for_agent returns no tool: passthrough_node) and
\* its edge back to agent
tools_node ==
    /\ agent_state.node = "tools"
    /\ agent_state' = [agent_state EXCEPT !.tool_runs = @ + 1, !.node = "agent"]
    /\ UNCHANGED <<agent_settings, nonAgentVars>>

\* node finalize and its edge to END
finalize_node ==
    /\ agent_state.node = "finalize"
    /\ agent_state' = [agent_state EXCEPT !.node = "end"]
    /\ UNCHANGED <<agent_settings, nonAgentVars>>

NextAgent == agent_initialize \/ agent_node \/ tools_node \/ finalize_node

\* once the state holds an error, neither the agent nor the tools node runs
NoStepAfterError ==
    [][agent_state.error =>
          /\ agent_state'.agent_runs = agent_state.agent_runs
          /\ agent_state'.tool_runs = agent_state.tool_runs]_vars

ReachesFinalize == agent_state.node = "agent" ~> agent_state.node = "finalize"

-----------------------------------------------------------------------------
(* Workflows, their tasks, executions and scheduled jobs                   *)

MaxWorkflows == 2

WorkflowIds == 1..MaxWorkflows

TriggerTypes == {"manual", "cron", "event"}

\* trigger_config dicts: a key that is absent reads Null
TriggerConfig(cron, timezone) == [cron |-> cron, timezone |-> timezone]

TriggerConfigs ==
    {TriggerConfig(Null, Null),
     TriggerConfig("0 9 * * 1-5", Null),
     TriggerConfig("0 9 * * 1-5", "UTC"),
     TriggerConfig("0 18 * * *", Null)}

DefaultTimezone == "Europe/Paris"

\* trigger_config.get("timezone", "Europe/Paris")
TimezoneOf(trigger_config) ==
    IF trigger_config.timezone = Null THEN DefaultTimezone ELSE trigger_config.timezone

\* the test create_workflow makes before it adds a scheduled job
IsCronTrigger(trigger_type, trigger_config) ==
    trigger_type = "cron" /\ trigger_config.cron # Null

NoWorkflow == [trigger_type |-> Null, trigger_config |-> TriggerConfig(Null, Null)]

DBScheduledJob(workflow_id, trigger_config) ==
    [workflow_id |-> workflow_id,
     cron_expression |-> trigger_config.cron,
     timezone |-> TimezoneOf(trigger_config)]

IdleTables ==
    /\ db_workflows = [w \in WorkflowIds |-> NoWorkflow]
    /\ db_tasks = {}
    /\ db_jobs = {}
    /\ db_executions = {}
    /\ next_workflow = 0

InitTables == IdleTables

\* POST /api/workflows: 404 for an unknown agent; else the row, its tasks,
\* and a scheduled job when the trigger is cron with an expression
create_workflow ==
    /\ next_workflow < MaxWorkflows
    /\ \E agent_found \in BOOLEAN, trigger_type \in TriggerTypes,
          trigger_config \in TriggerConfigs, n_tasks \in 0..1 :
         IF ~agent_found
         THEN UNCHANGED tableVars
         ELSE LET id == next_workflow + 1 IN
              /\ next_workflow' = id
              /\ db_workflows' = [db_workflows EXCEPT ![id] =
                    [trigger_type |-> trigger_type, trigger_config |-> trigger_config]]
              /\ db_tasks' = db_tasks \cup {[workflow_id |-> id, order |-> k] : k \in 1..n_tasks}
              /\ db_jobs' = IF IsCronTrigger(trigger_type, trigger_config)
                            THEN db_jobs \cup {DBScheduledJob(id, trigger_config)}
                            ELSE db_jobs
              /\ UNCHANGED db_executions
    /\ UNCHANGED nonTableVars

\* PUT /api/workflows/{id}: the fields that were sent are set on the row
\* (Null: the field was not sent); nothing else is written
update_workflow ==
    /\ \E id \in WorkflowIds, trigger_type \in TriggerTypes \cup {Null},
          sent_config \in BOOLEAN, trigger_config \in TriggerConfigs :
         IF db_workflows[id] = NoWorkflow
         THEN UNCHANGED tableVars
         ELSE /\ db_workflows' = [db_workflows EXCEPT ![id] =
                    [trigger_type |-> IF trigger_type = Null THEN @.trigger_type ELSE trigger_type,
                     trigger_config |-> IF sent_config THEN trigger_config ELSE @.trigger_config]]
              /\ UNCHANGED <<db_tasks, db_jobs, db_executions, next_workflow>>
    /\ UNCHANGED nonTableVars

\* DELETE /api/workflows/{id}: its tasks, executions and scheduled jobs,
\* then the row
delete_workflow ==
    /\ \E id \in WorkflowIds :
         IF db_workflows[id] = NoWorkflow
         THEN UNCHANGED tableVars
         ELSE /\ db_tasks' = {t \in db_tasks : t.workflow_id # id}
              /\ db_executions' = {e \in db_executions : e.workflow_id # id}
              /\ db_jobs' = {j \in db_jobs : j.workflow_id # id}
              /\ db_workflows' = [db_workflows EXCEPT ![id] = NoWorkflow]
              /\ UNCHANGED next_workflow
    /\ UNCHANGED nonTableVars

\* POST /api/workflows/{id}/execute: 404 for an unknown workflow, else one
\* execution row
create_execution ==
    /\ \E id \in WorkflowIds :
         IF db_workflows[id] = NoWorkflow
         THEN UNCHANGED tableVars
         ELSE /\ db_executions' = db_executions \cup {[workflow_id |-> id]}
              /\ UNCHANGED <<db_workflows, db_tasks, db_jobs, next_workflow>>
    /\ UNCHANGED nonTableVars

NextTables == create_workflow \/ update_workflow \/ delete_workflow \/ create_execution

JobsOf(id) == {j \in db_jobs : j.workflow_id = id}

\* C39: a workflow has a scheduled job iff its trigger_type is cron with a
\* cron expression; that job's cron_expression and timezone are those of
\* the workflow's current trigger_config; no scheduled job, task or
\* execution refers to a deleted workflow.
C39_JobsFollowWorkflows ==
    /\ \A id \in WorkflowIds :
         db_workflows[id] # NoWorkflow =>
            /\ JobsOf(id) # {} <=>
                 IsCronTrigger(db_workflows[id].trigger_type, db_workflows[id].trigger_config)
            /\ \A j \in JobsOf(id) : j = DBScheduledJob(id, db_workflows[id].trigger_config)
    /\ \A r \in db_jobs \cup db_tasks \cup db_executions :
         db_workflows[r.workflow_id] # NoWorkflow

-----------------------------------------------------------------------------
(* Specifications                                                          *)

InitExecOnly == InitExec /\ IdleLLM /\ IdleRouter /\ IdleOrder /\ IdleJob /\ IdleQueue /\ IdleSSE /\ IdleTalk /\ IdleStep /\ IdleAgent /\ IdleTables

SpecExec == InitExecOnly /\ [][NextExec]_vars

\* graph.ainvoke runs the graph node after node until END
SpecExecFair ==
    /\ SpecExec
    /\ WF_vars(graph_execute_step) /\ WF_vars(graph_check_condition)
    /\ WF_vars(graph_handle_error)

InitLLMOnly == InitLLM /\ InitExec /\ IdleRouter /\ IdleOrder /\ IdleJob /\ IdleQueue /\ IdleSSE /\ IdleTalk /\ IdleStep /\ IdleAgent /\ IdleTables

SpecLLM == InitLLMOnly /\ [][NextLLM]_vars

SpecLLMSequential == InitLLMOnly /\ [][NextLLMSequential]_vars

InitConfigOnly == InitConfig /\ InitExec /\ IdleRouter /\ IdleOrder /\ IdleJob /\ IdleQueue /\ IdleSSE /\ IdleTalk /\ IdleStep /\ IdleAgent /\ IdleTables

SpecConfig == InitConfigOnly /\ [][NextConfig]_vars

InitChatOnly == InitChat /\ InitExec /\ IdleRouter /\ IdleOrder /\ IdleJob /\ IdleQueue /\ IdleSSE /\ IdleTalk /\ IdleStep /\ IdleAgent /\ IdleTables

SpecChat == InitChatOnly /\ [][NextChat]_vars

InitRouterOnly == InitRouter /\ InitExec /\ IdleLLM /\ IdleOrder /\ IdleJob /\ IdleQueue /\ IdleSSE /\ IdleTalk /\ IdleStep /\ IdleAgent /\ IdleTables

SpecRouter == InitRouterOnly /\ [][NextRouter]_vars

InitOrderOnly == InitOrder /\ InitExec /\ IdleLLM /\ IdleRouter /\ IdleJob /\ IdleQueue /\ IdleSSE /\ IdleTalk /\ IdleStep /\ IdleAgent /\ IdleTables

SpecOrder == InitOrderOnly /\ [][NextOrder]_vars

InitJobOnly == InitJob /\ InitExec /\ IdleLLM /\ IdleRouter /\ IdleOrder /\ IdleQueue /\ IdleSSE /\ IdleTalk /\ IdleStep /\ IdleAgent /\ IdleTables

SpecJob == InitJobOnly /\ [][NextJob]_vars

InitQueueOnly == InitQueue /\ InitExec /\ IdleLLM /\ IdleRouter /\ IdleOrder /\ IdleJob /\ IdleSSE /\ IdleTalk /\ IdleStep /\ IdleAgent /\ IdleTables

SpecQueue == InitQueueOnly /\ [][NextQueue]_vars

InitTalkOnly == InitTalk /\ InitExec /\ IdleLLM /\ IdleRouter /\ IdleOrder /\ IdleJob /\ IdleQueue /\ IdleSSE /\ IdleStep /\ IdleAgent /\ IdleTables

SpecTalk == InitTalkOnly /\ [][NextTalk]_vars

InitStepOnly == InitStep /\ InitExec /\ IdleLLM /\ IdleRouter /\ IdleOrder /\ IdleJob /\ IdleQueue /\ IdleSSE /\ IdleTalk /\ IdleAgent /\ IdleTables

SpecStep == InitStepOnly /\ [][NextStep]_vars

InitAgentOnly == InitAgent /\ InitExec /\ IdleLLM /\ IdleRouter /\ IdleOrder /\ IdleJob /\ IdleQueue /\ IdleSSE /\ IdleTalk /\ IdleStep /\ IdleTables

SpecAgent == InitAgentOnly /\ [][NextAgent]_vars

\* graph.ainvoke runs the graph node after node until END
SpecAgentFair == SpecAgent /\ WF_vars(NextAgent)

InitTablesOnly == InitTables /\ InitExec /\ IdleLLM /\ IdleRouter /\ IdleOrder /\ IdleJob /\ IdleQueue /\ IdleSSE /\ IdleTalk /\ IdleStep /\ IdleAgent

SpecTables == InitTablesOnly /\ [][NextTables]_vars

InitSSEOnly == InitSSE /\ InitExec /\ IdleLLM /\ IdleRouter /\ IdleOrder /\ IdleJob /\ IdleQueue /\ IdleTalk /\ IdleStep /\ IdleAgent /\ IdleTables

SpecSSE == InitSSEOnly /\ [][NextSSE]_vars

\* the worker's poll loop runs for ever: a waiting job of its queue is
\* taken, and its cron keeps firing
SpecQueueFair == SpecQueue /\ WF_vars(worker_poll) /\ WF_vars(cron_fire)

=============================================================================
